---- MODULE Spec2Model ----
(***************************************************************************)
(* Greenframe application shell: the activity router, the hash-driven      *)
(* modal overlays and the fixed-component size tracking of                 *)
(* src/src/Application.ts, with Activity.destroyAllModals and sleepFrames. *)
(*                                                                         *)
(* The program is single threaded: every handler runs to completion, so a  *)
(* handler is one action.  A handler is written as an operator from the    *)
(* world before it to the world after it, because handlers call each other *)
(* (routeChanged calls startActivityViaTag and hashChange, which calls     *)
(* showFixedComponents, which calls calculateActivitySize).  A throw sets  *)
(* obs.err and stops the rest of the handler.                              *)
(***************************************************************************)
EXTENDS Integers, Sequences, FiniteSets, TLC

VARIABLES
    app,    \* the fields of the Application object
    kids,   \* the element children of app.$root, in DOM order
    loc,    \* window.location: pathname, search, hash
    obs,    \* what the last handler did (observation only, never read by the code)
    history,    \* window.history: the entries of the tab and the position in them
    preload,    \* the resource preload container and the progress of start()
    components  \* the ComponentBase instances and the static fields of the class

vars == <<app, kids, loc, obs, history, preload, components>>

---------------------------------------------------------------------------
(* Bounds *)

MaxKids == 3            \* children of $root at any one time
MaxModals == 2          \* overlays in one activity's modal container
MaxHistory == 3         \* entries of window.history
MaxPreload == 2         \* children of the resource preload container
MaxValueLen == 1        \* characters of an argument value handed to goto
MaxArgs == 2            \* keys of an argument map handed to goto
MaxFrameCalls == 4      \* frame calls registered on one frame-driven component

(* Program constants *)

ModalSleepFrames == 2   \* sleepFrames(2) in Activity.destroyAllModals
TrapCeiling == 6        \* connectedCallbackRan++ > 6 in ComponentBase.connectedCallback
MaxUnits == 2           \* component instances
MaxMounts == 9          \* connectedCallback invocations on one instance
MaxCommon == 1          \* stylesheets added with addCommonCSS

---------------------------------------------------------------------------
(* The application under test: its routing configuration and screen types *)

Types == {"Home", "Settings", "NotFound"}

\* args.routes handed to start(): path -> () => Function
RoutePaths == {"/", "/settings", "/settings/login"}

Routes(path) ==
    CASE path = "/" -> "Home"
      [] path = "/settings" -> "Settings"
      [] path = "/settings/login" -> "Login"
      [] OTHER -> "undefined"

\* one route override: check(path) matches "/o", execute() yields the Settings class
OverridePaths == {"/o"}

\* an override added later with addRouteOverride matches its own path and yields
\* the Login class
OverrideExecute(path) == IF path = "/o" THEN "Settings" ELSE "Login"

Paths == {"/", "/settings", "/o", "/missing"}

Searches == {"", "?x=1"}

Tokens == {"m", "checkout"}

\* values of location.hash
Hashes == {"", "#m"}

\* new Application(applicationName, ...)
applicationName == "App"

\* the optional activityTitle of each activity class; NotFound declares none
activityTitle(tag) ==
    CASE tag = "Home" -> "Home"
      [] tag = "Settings" -> "Settings"
      [] tag = "Login" -> "Login"
      [] OTHER -> ""

\* the characters between the two spaces of the title template of setupActivity, as
\* code points: U+201A U+00C4 U+00EE in the source text
TitleSeparator == <<8218, 196, 238>>

\* the text of the title element, as <<screen title, separator, application name>>;
\* a title that is the application name alone has neither of the first two
TitleText(t, sep, name) == <<t, sep, name>>

\* activity classes that declare the optional refresh() hook
HasRefresh(tag) == tag = "Settings"

\* JSON.stringify of an argument map, as written by the code
NoArgs == "{}"

\* getPageArguments(): location.search minus "?", split on "&", then on "="
getPageArguments(search) ==
    CASE search = "" -> NoArgs
      [] search = "?x=1" -> "{x:1}"
      [] search = "?x=2" -> "{x:2}"
      [] OTHER -> NoArgs

\* goto's query string built from its data argument
GotoExtra(data) ==
    CASE data = NoArgs -> ""
      [] data = "{x:1}" -> "?x=1"
      [] data = "{x:2}" -> "?x=2"
      [] OTHER -> ""

Anchors == {"top", "bottom"}

Extents == {40}

---------------------------------------------------------------------------
(* DOM nodes *)

NoHooks == [t \in Tokens |-> "none"]

\* a child of $root that is an Activity.  An activity is named by its index in kids:
\* within a handler children are only appended or marked, never moved.
\* timer is the handle of the timeout destroy() started for it, 0 before destroy()
ActivityNode(tag) ==
    [id |-> 0, kind |-> "activity", tag |-> tag, destroyed |-> FALSE,
     modals |-> <<>>, hooks |-> NoHooks,
     anchor |-> "", extent |-> 0, connecting |-> FALSE, timer |-> 0]

\* a child of $root that is a registered fixed component
FixedNode(id, anchor, extent) ==
    [id |-> id, kind |-> "fixed", tag |-> "fixed", destroyed |-> FALSE,
     modals |-> <<>>, hooks |-> NoHooks,
     anchor |-> anchor, extent |-> extent, connecting |-> TRUE, timer |-> 0]

\* a child of an activity's $modalContainer.  resolved is whether the promise of
\* the first removeModal() on it has been resolved
ModalNode(id, token, type) ==
    [id |-> id, token |-> token, type |-> type, destroyed |-> FALSE,
     waits |-> {}, endListener |-> FALSE, removing |-> FALSE, resolved |-> FALSE]

Min(S) == CHOOSE x \in S : \A y \in S : x <= y

Max(S) == CHOOSE x \in S : \A y \in S : x >= y

RemoveAt(s, i) == SubSeq(s, 1, i - 1) \o SubSeq(s, i + 1, Len(s))

\* setTimeout(): a handle no pending timeout of a child of $root has
FreshTimer(ks) == Min((1..(Len(ks) + 1)) \ {ks[i].timer : i \in DOMAIN ks})

FreshFixedId(ks) == Min((1..(Len(ks) + 1)) \ {ks[i].id : i \in DOMAIN ks})

AllModalIds(ks) == UNION {{ks[i].modals[j].id : j \in DOMAIN ks[i].modals} : i \in DOMAIN ks}

FreshModalId(ks) == Min((1..(Cardinality(AllModalIds(ks)) + 1)) \ AllModalIds(ks))

IdxOf(ks, id) == CHOOSE i \in DOMAIN ks : ks[i].id = id

HasId(ks, id) == \E i \in DOMAIN ks : ks[i].id = id

\* an entry of window.history: the location it shows and its state object
HistoryEntry(l, state) == [loc |-> l, state |-> state]

\* window.history where the model does not follow it
NoHistory == [entries |-> <<>>, at |-> 0]

\* history.pushState(state, "", url): the entries after the current one are dropped
pushState(h, state, l) ==
    [entries |-> Append(SubSeq(h.entries, 1, h.at), HistoryEntry(l, state)), at |-> h.at + 1]

\* a child of the preload container: an <img> or not, its complete property, whether
\* its markup carries an attribute named "complete", its ready attribute, and whether
\* preloadResources has added its load listener
PreloadChild(img, complete, marked) ==
    [img |-> img, complete |-> complete, marked |-> marked, ready |-> FALSE, listener |-> FALSE]

\* start() has returned and the container is empty
NoPreload == [children |-> <<>>, pc |-> "started", resolved |-> TRUE]

\* check() of preloadResources: p.querySelector("*[complete]") finds no element
check(p) ==
    IF \E i \in DOMAIN p.children : p.children[i].marked THEN p
    ELSE [p EXCEPT !.resolved = TRUE]

\* the executor of preloadResources(): the loop over p.children
preloadResources(p) ==
    LET F[i \in 0..Len(p.children)] ==
            IF i = 0 THEN p
            ELSE check(IF p.children[i].img
                       THEN [F[i - 1] EXCEPT !.children[i].ready = p.children[i].complete,
                                             !.children[i].listener = TRUE]
                       ELSE [F[i - 1] EXCEPT !.children[i].ready = TRUE])
    IN F[Len(p.children)]

\* the load event of the image child i
imageLoaded(p, i) ==
    IF p.children[i].listener
    THEN check([p EXCEPT !.children[i].complete = TRUE, !.children[i].ready = TRUE])
    ELSE [p EXCEPT !.children[i].complete = TRUE]

---------------------------------------------------------------------------
(* Observation of a handler *)

World == [app |-> app, kids |-> kids, loc |-> loc, obs |-> obs]

Throw(w, err) == [w EXCEPT !.obs.err = err]

Threw(w) == w.obs.err # "none"

Log(w, e, id, arg) ==
    [w EXCEPT !.obs.events = Append(@, [e |-> e, id |-> id, arg |-> arg])]

---------------------------------------------------------------------------
(* Components: ComponentBase, unnamed/part_001 *)

\* component types: X-CARD declares a layout (with a stylesheet), X-PLAIN declares none
UnitTags == {"X-CARD", "X-PLAIN"}
Undefined == <<"undefined">>
HasLayout(tag) == tag = "X-CARD"

\* new Layout(); this.layout(layout): the fragment the layout function leaves in layout.$root
GenerateLayout(tag) == <<"layout-css", "div">>

\* ComponentLoadBehavior; "none" is a falsy loadBehavior
LoadBehaviors == {"hideBeforeReady", "useLoadAttribute", "none"}
Gating(lb) == lb \in {"hideBeforeReady", "useLoadAttribute"}

\* what setup() does with this.css(...): nothing, a call it does not await, a call it awaits
SetupCss == {"none", "unawaited", "awaited"}

IsLink(n) == n.kind \in {"common-css", "layout-css", "component-css", "element-css"}
Node(kind) == [kind |-> kind, tracked |-> FALSE, loaded |-> FALSE]

\* frag.cloneNode(true): a copy of the fragment's nodes; the fragment keeps its own
CloneNode(frag) == frag
\* appending a DocumentFragment moves its children out of it
AfterAppend(frag) == <<>>
NodesOf(frag) == [i \in DOMAIN frag |-> Node(frag[i])]

\* a constructed component that is not yet connected.  unitCss: whether
\* AssetLoader2.CSS finds a stylesheet for the class.  The other fields are those of
\* the instance, the locals total/loaded of its connectedCallback, and counters of
\* what has been executed (setupCalls, layoutClones, clears, warns, last)
Unit(tag, lb, unitCss, setupCss) ==
    [tag |-> tag, loadBehavior |-> lb, unitCss |-> unitCss, setupCss |-> setupCss,
     connectedCallbackRan |-> 0, connectedCallbackFinished |-> FALSE,
     deferred |-> FALSE, root |-> <<>>, total |-> 0, loaded |-> 0,
     pc |-> "new", mounts |-> 0, setupCalls |-> 0, layoutClones |-> 0,
     clears |-> 0, warns |-> 0, last |-> "none"]

NoComponents ==
    [units |-> <<>>, commonCSSBlobs |-> 0,
     CachedLayouts |-> [t \in UnitTags |-> Undefined],
     layoutRuns |-> [t \in UnitTags |-> 0]]

\* if (this.connectedCallbackRan)
AlreadyRan_Never(ran) == FALSE
AlreadyRan(ran) == ran # 0

\* if (this.connectedCallbackRan++ > 6) throw
Trapped_Sooner(ran) == ran > TrapCeiling - 1
Trapped(ran) == ran > TrapCeiling

\* if (total === loaded): style.display = "" or removeAttribute("load")
ClearWhenComplete(u) ==
    IF u.total = u.loaded /\ Gating(u.loadBehavior)
    THEN [u EXCEPT !.deferred = FALSE, !.clears = @ + 1]
    ELSE u

\* this.$root.appendChild(frag.cloneNode(true))
AttachLayout_NoClone(c, tag) == <<NodesOf(c.CachedLayouts[tag]), AfterAppend(c.CachedLayouts[tag])>>
AttachLayout(c, tag) == <<NodesOf(CloneNode(c.CachedLayouts[tag])), c.CachedLayouts[tag]>>

\* connectedCallback() up to its await of setup()
connectedCallback(c, id) ==
    LET u == c.units[id]
        cached == c.CachedLayouts[u.tag] # Undefined
        c1 == IF HasLayout(u.tag) /\ ~cached
              THEN [c EXCEPT !.CachedLayouts[u.tag] = GenerateLayout(u.tag),
                             !.layoutRuns[u.tag] = @ + 1]
              ELSE c
        att == AttachLayout(c1, u.tag)
        c2 == IF HasLayout(u.tag) THEN [c1 EXCEPT !.CachedLayouts[u.tag] = att[2]] ELSE c1
        common == [i \in 1..c.commonCSSBlobs |-> Node("common-css")]
        root1 == u.root \o common \o (IF HasLayout(u.tag) THEN att[1] ELSE <<>>)
        root2 == IF u.loadBehavior # "none"
                 THEN [i \in DOMAIN root1 |->
                          IF IsLink(root1[i]) THEN [root1[i] EXCEPT !.tracked = TRUE] ELSE root1[i]]
                 ELSE root1
        total == 1 + Cardinality({i \in DOMAIN root2 : root2[i].tracked})
        root3 == root2 \o (IF u.unitCss THEN <<Node("component-css")>> ELSE <<>>)
        root4 == root3 \o (IF u.setupCss # "none" THEN <<Node("element-css")>> ELSE <<>>)
    IN IF AlreadyRan(u.connectedCallbackRan)
       THEN [c EXCEPT !.units[id].connectedCallbackRan = @ + 1,
                      !.units[id].warns = @ + 1,
                      !.units[id].last = IF Trapped(u.connectedCallbackRan)
                                         THEN "threw" ELSE "warned"]
       ELSE [c2 EXCEPT !.units[id] =
                 [u EXCEPT !.connectedCallbackRan = @ + 1,
                           !.deferred = Gating(u.loadBehavior),
                           !.root = root4, !.total = total, !.loaded = 0,
                           !.layoutClones = IF HasLayout(u.tag) THEN @ + 1 ELSE @,
                           !.mounts = @ + 1, !.setupCalls = @ + 1,
                           !.pc = "awaitSetup", !.last = "mounted"]]

\* the promise of an awaited this.css(...) resolves on the link's load event
SetupCanResolve(u) ==
    u.setupCss = "awaited" =>
        \A i \in DOMAIN u.root : u.root[i].kind = "element-css" => u.root[i].loaded

setupResolved_NoCheck(c, id) ==
    [c EXCEPT !.units[id] =
        [c.units[id] EXCEPT !.loaded = @ + 1, !.connectedCallbackFinished = TRUE,
                            !.pc = "finished"]]

\* connectedCallback() after the await of setup()
setupResolved(c, id) ==
    [c EXCEPT !.units[id] =
        [ClearWhenComplete([c.units[id] EXCEPT !.loaded = @ + 1])
            EXCEPT !.connectedCallbackFinished = TRUE, !.pc = "finished"]]

\* the load event of the i-th node of the component's root; $link.onload is set
\* on the links found by the $$ query only
linkLoaded(c, id, i) ==
    LET u == [c.units[id] EXCEPT !.root[i].loaded = TRUE]
    IN [c EXCEPT !.units[id] =
           IF u.root[i].tracked THEN ClearWhenComplete([u EXCEPT !.loaded = @ + 1]) ELSE u]

---------------------------------------------------------------------------
(* Fixed components: Application.ts 293-460 *)

ZeroInsets == [top |-> 0, left |-> 0, bottom |-> 0, right |-> 0]

\* the sum of the measured extents of the elements anchored at one edge
SumExtents(ks, ids, anchor) ==
    LET F[i \in 0..Len(ids)] ==
            IF i = 0 THEN 0
            ELSE F[i - 1] +
                 (IF HasId(ks, ids[i]) /\ ks[IdxOf(ks, ids[i])].anchor = anchor
                  THEN ks[IdxOf(ks, ids[i])].extent ELSE 0)
    IN F[Len(ids)]

\* calculateActivitySize(): the synchronous part.  app.calc is
\* activitySizeCalculationPromises: the elements whose DOMRect is awaited.
calculateActivitySize(w) ==
    IF ~w.app.fixedComponentsHidden
    THEN IF w.app.calc = <<>>
         THEN IF w.app.fixedComponents = <<>>
              THEN [w EXCEPT !.app.insets = ZeroInsets]
              ELSE [w EXCEPT !.app.calc = w.app.fixedComponents]
         ELSE w
    ELSE [w EXCEPT !.app.insets = ZeroInsets]

\* the Promise.all(...).then callback of calculateActivitySize
MeasuredInsets(w) ==
    [top |-> SumExtents(w.kids, w.app.calc, "top"),
     left |-> SumExtents(w.kids, w.app.calc, "left"),
     bottom |-> SumExtents(w.kids, w.app.calc, "bottom"),
     right |-> SumExtents(w.kids, w.app.calc, "right")]

sizesMeasured(w) ==
    [w EXCEPT !.app.insets = MeasuredInsets(w), !.app.calc = <<>>]

hideFixedComponents_KeepsInsets(w) ==
    [w EXCEPT !.app.fixedComponentsHidden = TRUE]

hideFixedComponents(w) ==
    IF w.app.fixedComponentsHidden THEN w
    ELSE IF ~w.app.started THEN Throw(w, "NotStarted")
    ELSE calculateActivitySize([w EXCEPT !.app.fixedComponentsHidden = TRUE])

showFixedComponents(w) ==
    IF ~w.app.fixedComponentsHidden THEN w
    ELSE IF ~w.app.started THEN Throw(w, "NotStarted")
    ELSE calculateActivitySize([w EXCEPT !.app.fixedComponentsHidden = FALSE])

registerFixedComponent(w, anchor, extent) ==
    IF ~w.app.started THEN Throw(w, "NotStarted")
    ELSE LET id == FreshFixedId(w.kids)
         IN [w EXCEPT !.app.fixedComponents = Append(@, id),
                      !.kids = Append(@, FixedNode(id, anchor, extent))]

\* unregisterFixedComponent(element, failSilently): the first match is removed from
\* the document and from fixedComponents, the size is recalculated; the throw after
\* the loop is reached whether or not an element matched
unregisterFixedComponent(w, id, failSilently) ==
    LET fc == w.app.fixedComponents
        M == {i \in DOMAIN fc : fc[i] = id}
        w1 == IF M = {} THEN w
              ELSE calculateActivitySize(
                       [w EXCEPT !.kids = SelectSeq(@, LAMBDA n : ~(n.kind = "fixed" /\ n.id = id)),
                                 !.app.fixedComponents = RemoveAt(fc, Min(M))])
    IN IF failSilently THEN w1 ELSE Throw(w1, "CouldNotFindElement")

\* unregisterFixedComponents(): the loop removes fixedComponents[i], splices it out of
\* the array and increments i, with the length read again at every test.  F[k] is
\* the world after the iteration with i = k - 1
unregisterFixedComponents(w) ==
    LET n == Len(w.app.fixedComponents)
        F[k \in 0..n] ==
            IF k = 0 THEN w
            ELSE IF Threw(F[k - 1]) \/ k > Len(F[k - 1].app.fixedComponents) THEN F[k - 1]
            ELSE LET id == F[k - 1].app.fixedComponents[k]
                 IN calculateActivitySize(
                        [F[k - 1] EXCEPT
                            !.kids = SelectSeq(@, LAMBDA c : ~(c.kind = "fixed" /\ c.id = id)),
                            !.app.fixedComponents = RemoveAt(@, k)])
    IN F[n]

\* the .then of connectToAndWait in registerFixedComponent
fixedComponentConnected(w, id) ==
    calculateActivitySize([w EXCEPT !.kids[IdxOf(w.kids, id)].connecting = FALSE])

---------------------------------------------------------------------------
(* Current activity and modals: Application.ts 494-575, Activity (part_002) *)

\* (mutant) the selectors leave out :not([destroyed])
IsLiveActivity_IgnoresMark(n, tag) == n.kind = "activity" /\ n.tag = tag

IsLiveActivity(n, tag) == n.kind = "activity" /\ n.tag = tag /\ ~n.destroyed

\* indexes of root.$$(tag + ":not([destroyed])")
LiveIdx(ks, tag) == {i \in DOMAIN ks : IsLiveActivity(ks[i], tag)}

\* getCurrentActivity(): index in kids of the current activity, 0 when it throws
CurrentIdx(w) ==
    LET S == LiveIdx(w.kids, w.app.currentActivityTag)
    IN IF S = {} THEN 0 ELSE Max(S)

\* sleepFrames(2) of destroyAllModals: the callback has counted no frame yet
NewWait == 0

\* the body of destroyAllModals' forEach.  m.waits holds the frame counts of the
\* pending sleepFrames callbacks whose aniStarted is still false; of several the
\* oldest removes the element first, so a later one is not recorded.
DestroyModal_Unmarked(m) == m

DestroyModal(m) ==
    [m EXCEPT !.destroyed = TRUE, !.waits = IF @ = {} THEN {NewWait} ELSE @]

\* Activity.destroyAllModals() on the activity at index a
destroyAllModals(w, a) ==
    LET ms == w.kids[a].modals
        marked == [j \in DOMAIN ms |-> DestroyModal(ms[j])]
        F[j \in 0..Len(ms)] ==
            IF j = 0 THEN [w EXCEPT !.kids[a].modals = marked]
            ELSE Log(F[j - 1], IF ms[j].destroyed THEN "modalRedestroy" ELSE "modalDestroy",
                     ms[j].id, ms[j].token)
    IN F[Len(ms)]

\* the characters of the strings the model meets: tokens and location.hash values
Chars(s) ==
    CASE s = "" -> <<>>
      [] s = "m" -> <<"m">>
      [] s = "checkout" -> <<"c", "h", "e", "c", "k", "o", "u", "t">>
      [] s = "#m" -> <<"#", "m">>
      [] s = "#checkout" -> <<"#", "c", "h", "e", "c", "k", "o", "u", "t">>
      [] s = "#checkout?qty=2" ->
            <<"#", "c", "h", "e", "c", "k", "o", "u", "t", "?", "q", "t", "y", "=", "2">>
      [] s = "#m?s=%22a%22&ok=true&n=17" ->
            <<"#", "m", "?", "s", "=", "%", "2", "2", "a", "%", "2", "2", "&",
              "o", "k", "=", "t", "r", "u", "e", "&", "n", "=", "1", "7">>
      [] s = "#m?qty" -> <<"#", "m", "?", "q", "t", "y">>
      [] s = "#m?s=%22a%22" -> <<"#", "m", "?", "s", "=", "%", "2", "2", "a", "%", "2", "2">>
      [] s = "#m?s=%22&%22" -> <<"#", "m", "?", "s", "=", "%", "2", "2", "&", "%", "2", "2">>
      [] s = "#m?s=%22%%22" -> <<"#", "m", "?", "s", "=", "%", "2", "2", "%", "%", "2", "2">>
      [] s = "#m?n=17&ok=true" ->
            <<"#", "m", "?", "n", "=", "1", "7", "&", "o", "k", "=", "t", "r", "u", "e">>

\* the string with the given characters; strings outside the table are kept apart
\* from every token
Str(cs) ==
    IF \E s \in {"", "m", "checkout"} : Chars(s) = cs
    THEN CHOOSE s \in {"", "m", "checkout"} : Chars(s) = cs
    ELSE "(other)"

\* String.prototype.indexOf(ch) + 1
IndexOf(cs, ch) ==
    IF \E i \in DOMAIN cs : cs[i] = ch THEN Min({i \in DOMAIN cs : cs[i] = ch}) ELSE 0

\* String.prototype.split(ch): the pieces between the occurrences of ch
Split(cs, ch) ==
    LET seps == {i \in DOMAIN cs : cs[i] = ch}
        Sep(k) == IF k = 0 THEN 0
                  ELSE IF k > Cardinality(seps) THEN Len(cs) + 1
                  ELSE CHOOSE i \in seps : Cardinality({j \in seps : j <= i}) = k
    IN [k \in 1..(Cardinality(seps) + 1) |-> SubSeq(cs, Sep(k - 1) + 1, Sep(k) - 1)]

\* decodeURIComponent on the escapes the fragments use; any other escape is a URIError
decodeURIComponent(cs) ==
    LET n == Len(cs)
        D[i \in 1..(n + 1)] ==
            IF i = n + 1 THEN <<>>
            ELSE IF cs[i] # "%"
                 THEN IF D[i + 1] = <<"URIError">> THEN D[i + 1] ELSE <<cs[i]>> \o D[i + 1]
            ELSE IF i + 2 <= n /\ cs[i + 1] = "2" /\ cs[i + 2] = "2"
                 THEN IF D[i + 3] = <<"URIError">> THEN D[i + 3] ELSE <<"\"">> \o D[i + 3]
            ELSE <<"URIError">>
    IN D[1]

Digits == <<"0", "1", "2", "3", "4", "5", "6", "7", "8", "9">>

\* the number written by a sequence of digits
Decimal(cs) ==
    LET V[i \in 0..Len(cs)] ==
            IF i = 0 THEN 0
            ELSE 10 * V[i - 1] + (CHOOSE d \in 0..9 : Digits[d + 1] = cs[i])
    IN V[Len(cs)]

JsonValue(t, n, b, str) == [t |-> t, n |-> n, b |-> b, s |-> str]

\* JSON.parse on numbers without sign, booleans and strings without escapes
JSONparse(cs) ==
    IF cs # <<>> /\ (\A i \in DOMAIN cs : \E d \in DOMAIN Digits : Digits[d] = cs[i])
          /\ (cs[1] = "0" => Len(cs) = 1)
    THEN JsonValue("number", Decimal(cs), FALSE, <<>>)
    ELSE IF cs = <<"t", "r", "u", "e">> THEN JsonValue("boolean", 0, TRUE, <<>>)
    ELSE IF cs = <<"f", "a", "l", "s", "e">> THEN JsonValue("boolean", 0, FALSE, <<>>)
    ELSE IF Len(cs) >= 2 /\ cs[1] = "\"" /\ cs[Len(cs)] = "\""
            /\ \A i \in 2..(Len(cs) - 1) : cs[i] \notin {"\"", "\\"}
    THEN JsonValue("string", 0, FALSE, SubSeq(cs, 2, Len(cs) - 1))
    ELSE JsonValue("SyntaxError", 0, FALSE, <<>>)

\* location.hash.split("?")[0].substr(1)
TokenIn_Whole(raw) == IF raw = <<>> THEN "" ELSE Str(Tail(raw))
TokenIn(raw) ==
    LET first == Split(raw, "?")[1]
    IN Str(IF first = <<>> THEN <<>> ELSE Tail(first))

\* one step of the reduce in getHashArguments: the pair key=value added to the
\* result so far; err is the exception the function ends with
AddArgument(prev, item) ==
    LET parts == Split(item, "=")
        key == decodeURIComponent(parts[1])
        val == IF Len(parts) >= 2 THEN decodeURIComponent(parts[2])
               ELSE <<"u", "n", "d", "e", "f", "i", "n", "e", "d">>
        v == JSONparse(val)
    IN IF prev.err # "none" \/ parts[1] = <<>> THEN prev
       ELSE IF key = <<"URIError">> \/ val = <<"URIError">>
            THEN [prev EXCEPT !.err = "URIError"]
       ELSE IF v.t = "SyntaxError" THEN [prev EXCEPT !.err = "SyntaxError"]
       ELSE [prev EXCEPT !.map = [k \in DOMAIN prev.map \cup {key} |->
                                     IF k = key THEN v ELSE prev.map[k]]]

\* the body of getHashArguments on the characters of location.hash
ArgumentsIn(raw) ==
    LET q == IndexOf(raw, "?")
        items == Split(SubSeq(raw, q + 1, Len(raw)), "&")
        R[i \in 0..Len(items)] ==
            IF i = 0 THEN [err |-> "none", map |-> <<>>] ELSE AddArgument(R[i - 1], items[i])
    IN IF q = 0 THEN [err |-> "none", map |-> <<>>] ELSE R[Len(items)]

\* get hash()
hash(w) == TokenIn(Chars(w.loc.hash))

\* getHashArguments()
getHashArguments(w) == ArgumentsIn(Chars(w.loc.hash))

HookOf_AnyScreen(n, token) ==
    IF \E i \in DOMAIN kids : kids[i].kind = "activity" /\ kids[i].hooks[token] # "none"
    THEN "modal" ELSE "none"

\* registeredModalHooks[hash]
HookOf(n, token) == IF token \in DOMAIN n.hooks THEN n.hooks[token] ELSE "none"

\* $modalContainer.querySelector('[triggered-by-hash="<hash>"]')
TriggeredByHash(m, token) == m.type = "hash" /\ m.token = token

HasTriggered(w, a, token) ==
    \E j \in DOMAIN w.kids[a].modals : TriggeredByHash(w.kids[a].modals[j], token)

\* (observation) what the container holds for the token when hashChange looks:
\* a tagged overlay not marked destroyed, only destroyed tagged overlays, or none
TaggedState(w, a, token) ==
    LET T == {j \in DOMAIN w.kids[a].modals : TriggeredByHash(w.kids[a].modals[j], token)}
    IN IF T = {} THEN "none"
       ELSE IF \E j \in T : ~w.kids[a].modals[j].destroyed THEN "live"
       ELSE "destroyedOnly"

AttachHashModal_NoHide(w, token) ==
    LET id == FreshModalId(w.kids)
        a == CurrentIdx(w)
    IN Log([w EXCEPT !.kids[a].modals = Append(@, ModalNode(id, token, "hash"))],
           "modalCreate", id, token)

\* the factory returned a modal: hide, tag, type = "hash", append
AttachHashModal(w, token) ==
    LET w1 == hideFixedComponents(w)
        id == FreshModalId(w1.kids)
        a == CurrentIdx(w1)
    IN IF Threw(w1) THEN w1
       ELSE IF a = 0 THEN Throw(w1, "NoCurrentActivity")
       ELSE Log([w1 EXCEPT !.kids[a].modals = Append(@, ModalNode(id, token, "hash"))],
                "modalCreate", id, token)

NullModal_Silent(w) == showFixedComponents(w)

NullModal(w) ==
    LET w1 == showFixedComponents(w)
    IN IF Threw(w1) THEN w1
       ELSE IF w1.app.ThrowFatalOnNullModalObject THEN Throw(w1, "NullModal") ELSE w1

\* const args = this.getHashArguments(); const $modal = functionObject(args), and
\* what follows for the modal or the null the factory f returns; r is the outcome
\* of getHashArguments()
CallFactory(w, a, token, f, r) ==
    IF r.err # "none" THEN Throw(w, r.err)
    ELSE IF f = "modal"
         THEN AttachHashModal(Log(Log(w, "args", a, r.map), "factory", a, token), token)
         ELSE NullModal(Log(Log(w, "args", a, r.map), "factory", a, token))

HashChangeBody(w0) ==
    LET token == hash(w0)
        a == CurrentIdx(w0)
        w == IF a = 0 THEN w0 ELSE Log(w0, "tagged", a, TaggedState(w0, a, token))
    IN IF a = 0 THEN Throw(w, "NoCurrentActivity")
       ELSE IF HasTriggered(w, a, token) THEN hideFixedComponents(w)
       ELSE LET w1 == destroyAllModals(w, a)
                f == IF token = "" THEN "none" ELSE HookOf(w1.kids[a], token)
            IN IF token # ""
               THEN IF f \in {"modal", "null"}
                    THEN CallFactory(w1, a, token, f, getHashArguments(w1))
                    ELSE w1
               ELSE showFixedComponents(w1)

\* hashChange(force?)
hashChange_AlwaysForced(w, force) ==
    HashChangeBody(Log([w EXCEPT !.app.lastHash = hash(w)], "hashChange", 0, hash(w)))

hashChange(w, force) ==
    IF hash(w) = w.app.lastHash /\ ~force THEN w
    ELSE HashChangeBody(Log([w EXCEPT !.app.lastHash = hash(w)], "hashChange", 0, hash(w)))

\* the digits of a number
DecimalChars(n) ==
    LET D[k \in 0..n] ==
            IF k < 10 THEN <<Digits[k + 1]>> ELSE D[k \div 10] \o <<Digits[(k % 10) + 1]>>
    IN D[n]

\* JSON.stringify on numbers, booleans and strings without characters to escape
JSONstringify(v) ==
    IF v.t = "number" THEN DecimalChars(v.n)
    ELSE IF v.t = "boolean"
         THEN IF v.b THEN <<"t", "r", "u", "e">> ELSE <<"f", "a", "l", "s", "e">>
    ELSE <<"\"">> \o v.s \o <<"\"">>

\* the fragment of a URL as location.hash gives it back: a quotation mark is escaped
FragmentEscape(cs) ==
    LET F[i \in 0..Len(cs)] ==
            IF i = 0 THEN <<>>
            ELSE F[i - 1] \o (IF cs[i] = "\"" THEN <<"%", "2", "2">> ELSE <<cs[i]>>)
    IN F[Len(cs)]

\* startModal's extra: "?" or "&", then key + "=" + JSON.stringify(properties[key])
StartModalExtra(properties) ==
    LET E[n \in 0..Len(properties)] ==
            IF n = 0 THEN <<>>
            ELSE E[n - 1] \o <<IF n = 1 THEN "?" ELSE "&">> \o properties[n].key
                          \o <<"=">> \o JSONstringify(properties[n].val)
    IN E[Len(properties)]

\* the values location.hash takes in the model
Fragments ==
    {"", "#m", "#checkout", "#checkout?qty=2", "#m?s=%22a%22&ok=true&n=17", "#m?qty",
     "#m?s=%22a%22", "#m?s=%22&%22", "#m?s=%22%%22", "#m?n=17&ok=true"}

\* location.hash after pushState(state, title, location.href.split("#")[0] + "#" + name + extra)
HashOfCall(call) ==
    CHOOSE h \in Fragments :
        Chars(h) = FragmentEscape(<<"#">> \o Chars(call.name) \o StartModalExtra(call.properties))

Property(key, val) == [key |-> key, val |-> val]

\* calls of Activity.startModal(name, properties): the properties in Object.keys order
StartModalCalls ==
    {[name |-> "m", properties |-> <<>>],
     [name |-> "checkout", properties |-> <<>>],
     [name |-> "checkout",
      properties |-> <<Property(<<"q", "t", "y">>, JsonValue("number", 2, FALSE, <<>>))>>]}

\* Activity.startModal(name, properties) on the current activity
startModal(w, call) ==
    IF HookOf(w.kids[CurrentIdx(w)], call.name) = "none" THEN Throw(w, "NoModalDeclared")
    ELSE hashChange([w EXCEPT !.loc.hash = HashOfCall(call)], FALSE)

\* attachModal(modal)
attachModal(w) ==
    LET w1 == hideFixedComponents(w)
        a == CurrentIdx(w1)
        id == FreshModalId(w1.kids)
    IN IF Threw(w1) THEN w1
       ELSE IF a = 0 THEN Throw(w1, "NoCurrentActivity")
       ELSE Log([w1 EXCEPT !.kids[a].modals = Append(@, ModalNode(id, "", "attached"))],
                "modalCreate", id, "")

\* ModalComponent.removeModal() on the overlay at position j of the activity at a,
\* after the test of this.removing.  historyState is whether history.state is set.
\* history.back() changes the location later, with the popstate it causes;
\* location.hash = "" changes it at once.  The animationend listener of an "attached"
\* overlay removes the element; an "unattached" overlay only sets removing
FirstRemoveModal(w, a, j, historyState) ==
    LET m == w.kids[a].modals[j]
        w1 == [w EXCEPT !.kids[a].modals[j].removing = TRUE]
    IN IF m.type = "hash"
       THEN IF historyState THEN Log(w1, "removeModal", m.id, "historyBack")
            ELSE Log([w1 EXCEPT !.loc.hash = ""], "removeModal", m.id, "hashReset")
       ELSE IF m.type = "attached"
       THEN LET w2 == showFixedComponents(Log(w1, "removeModal", m.id, "attached"))
            IN IF Threw(w2) THEN w2
               ELSE [w2 EXCEPT !.kids[a].modals[j].destroyed = TRUE,
                               !.kids[a].modals[j].endListener = TRUE]
       ELSE Log(w1, "removeModal", m.id, "unattached")

removeModal_NoGuard(w, a, j, historyState) == FirstRemoveModal(w, a, j, historyState)

\* ModalComponent.removeModal()
removeModal(w, a, j, historyState) ==
    IF w.kids[a].modals[j].removing
    THEN Log(w, "removeModal", w.kids[a].modals[j].id, "resolved")
    ELSE FirstRemoveModal(w, a, j, historyState)

\* an animationend listener is registered on the overlay: the one of
\* destroyAllModals, or the one of the first removeModal() of a "hash" or "attached" overlay
HasEndListener(m) == m.endListener \/ (m.removing /\ m.type \in {"hash", "attached"})

\* animationend on the overlay at position j of the activity at a: the listener of
\* removeModal resolves its promise (and removes an "attached" overlay), the
\* listener of destroyAllModals removes the element
modalAnimationEnd(w, a, j) ==
    LET m == w.kids[a].modals[j]
        resolves == m.removing /\ m.type \in {"hash", "attached"}
        removes == m.endListener \/ (m.removing /\ m.type = "attached")
        w1 == IF resolves
              THEN Log([w EXCEPT !.kids[a].modals[j].resolved = TRUE], "resolve", m.id, m.type)
              ELSE w
    IN IF removes
       THEN Log([w1 EXCEPT !.kids[a].modals = RemoveAt(@, j)], "modalRemove", m.id, "animationend")
       ELSE w1

\* a ModalComponent put into the container neither by a factory nor by attachModal:
\* its type stays "unattached"
appendModal(w) ==
    LET a == CurrentIdx(w)
        id == FreshModalId(w.kids)
    IN Log([w EXCEPT !.kids[a].modals = Append(@, ModalNode(id, "", "unattached"))],
           "modalCreate", id, "")

---------------------------------------------------------------------------
(* Frame-driven components: FrameComponent, unnamed/part_009 *)

\* what a registered frame call does when invoked: return nothing, return a
\* promise, or remove its component from the document (and return nothing)
FrameCallKinds == {"sync", "async", "remove"}

\* a FrameComponent: requested is whether a requestAnimationFrame(this.frame) is
\* pending, pending whether a frame waits for the promises of its calls, connecting
\* whether connectedCallback waits for super.connectedCallback();
\* lateCalls counts the frame calls invoked after disconnectedCallback
FrameUnit(calls) ==
    [frameCalls |-> calls, killSwitch |-> FALSE, requested |-> FALSE, pending |-> FALSE,
     connected |-> FALSE, connecting |-> FALSE, invoked |-> 0, lateCalls |-> 0]

\* for (let i = 0; i < this.frameCalls.length; i++) this.frameCalls.splice(i, 1)
ClearFrameCalls(calls) ==
    LET n == Len(calls)
        F[k \in 0..n] ==
            IF k = 0 THEN calls
            ELSE IF k > Len(F[k - 1]) THEN F[k - 1]
            ELSE RemoveAt(F[k - 1], k)
    IN F[n]

\* disconnectedCallback(): the kill switch, cancelAnimationFrame, the clearing loop
frameDisconnected(u) ==
    [u EXCEPT !.connected = FALSE, !.killSwitch = TRUE, !.requested = FALSE,
              !.frameCalls = ClearFrameCalls(@)]

\* the loop of frame() over this.frameCalls, the length read at every test.
\* A call that removes the component runs disconnectedCallback before it returns
InvokeFrameCalls(u0) ==
    LET n == Len(u0.frameCalls)
        L[k \in 0..n] ==
            IF k = 0 THEN [u |-> u0, promises |-> 0]
            ELSE IF k > Len(L[k - 1].u.frameCalls) THEN L[k - 1]
            ELSE LET u == L[k - 1].u
                     call == u.frameCalls[k]
                     u1 == [u EXCEPT !.invoked = @ + 1,
                                     !.lateCalls = @ + (IF u.killSwitch THEN 1 ELSE 0)]
                 IN [u |-> IF call = "remove" /\ u1.connected THEN frameDisconnected(u1) ELSE u1,
                     promises |-> L[k - 1].promises + (IF call = "async" THEN 1 ELSE 0)]
    IN L[n]

\* FrameComponent.frame, the requestAnimationFrame callback
frameCallback(u0) ==
    LET u == [u0 EXCEPT !.requested = FALSE, !.invoked = 0]
        r == InvokeFrameCalls(u)
    IN IF u.killSwitch THEN u
       ELSE IF r.promises > 0 THEN [r.u EXCEPT !.pending = TRUE]
       ELSE [r.u EXCEPT !.requested = TRUE]

---------------------------------------------------------------------------
(* Page arguments on the characters of the URL: goto 676-697, getPageArguments 477-492 *)

\* characters of argument values: a letter and the characters a URL gives a meaning
QueryAlphabet == {"a", "&", "=", "%", "#"}

QueryKeys == {<<"a">>, <<"b">>, <<"c">>}

QueryValues == UNION {[1..n -> QueryAlphabet] : n \in 0..MaxValueLen}

\* the data argument of goto: its keys in Object.keys order, each with its value
QueryData ==
    {d \in UNION {[1..n -> [key : QueryKeys, val : QueryValues]] : n \in 0..MaxArgs} :
        \A i, j \in DOMAIN d : i # j => d[i].key # d[j].key}

\* goto's extra: "?" or "&", then key + "=" + data[key], for each key
GotoExtraChars(d) ==
    LET E[n \in 0..Len(d)] ==
            IF n = 0 THEN <<>>
            ELSE E[n - 1] \o <<IF n = 1 THEN "?" ELSE "&">> \o d[n].key \o <<"=">> \o d[n].val
    IN E[Len(d)]

\* location.search after pushState(state, "", origin + "/" + route + extra): the
\* query of the URL, which ends where its fragment begins
SearchOfUrl(extra) ==
    IF IndexOf(extra, "#") = 0 THEN extra ELSE SubSeq(extra, 1, IndexOf(extra, "#") - 1)

NoPageArguments == [map |-> <<>>, err |-> "none"]

\* one step of the reduce in getPageArguments.  The map is kept as the sequence of
\* its <<key, value>> pairs, a key being assigned again replacing its value
AddPageArgument(prev, item) ==
    LET parts == Split(item, "=")
        key == decodeURIComponent(parts[1])
        val == IF Len(parts) >= 2 THEN decodeURIComponent(parts[2])
               ELSE <<"u", "n", "d", "e", "f", "i", "n", "e", "d">>
    IN IF prev.err # "none" \/ parts[1] = <<>> THEN prev
       ELSE IF key = <<"URIError">> \/ val = <<"URIError">> THEN [prev EXCEPT !.err = "URIError"]
       ELSE IF \E i \in DOMAIN prev.map : prev.map[i][1] = key
       THEN [prev EXCEPT !.map = [i \in DOMAIN prev.map |->
                                     IF prev.map[i][1] = key THEN <<key, val>> ELSE prev.map[i]]]
       ELSE [prev EXCEPT !.map = Append(@, <<key, val>>)]

\* getPageArguments() on the characters of location.search
PageArgumentsIn(search) ==
    LET items == Split(IF search = <<>> THEN <<>> ELSE Tail(search), "&")
        R[n \in 0..Len(items)] ==
            IF n = 0 THEN NoPageArguments ELSE AddPageArgument(R[n - 1], items[n])
    IN R[Len(items)]

\* goto(route, data) as far as the arguments go: the URL it pushes and the map the
\* route change reads back and hands to switchedTo
gotoData(w, d) ==
    LET r == PageArgumentsIn(SearchOfUrl(GotoExtraChars(d)))
        w1 == Log(w, "gotoData", 0, d)
    IN IF r.err # "none" THEN Throw(w1, r.err)
       ELSE Log(w1, "switchedTo", 0, r.map)

\* a route change on a location whose query is search
popStateQuery(w, search) ==
    LET r == PageArgumentsIn(search)
        w1 == Log(w, "search", 0, search)
    IN IF r.err # "none" THEN Throw(w1, r.err)
       ELSE Log(w1, "switchedTo", 0, r.map)

---------------------------------------------------------------------------
(* The router: Application.ts 577-847, Activity.destroy *)

\* setupActivity(activity) inside startActivityViaTag: title, then switchedTo(args)
setupActivity(w, a, args) ==
    Log([w EXCEPT !.app.title =
                IF activityTitle(w.kids[a].tag) # ""
                THEN TitleText(activityTitle(w.kids[a].tag), TitleSeparator, applicationName)
                ELSE TitleText("", <<>>, applicationName)],
        "switchedTo", a, args)

\* Activity.destroy() on every Activity sibling after index a, in DOM order.
\* Each call starts a WaitForAnimationFinish(this, 600); of the timeouts of several
\* calls on one element the first to be set fires first, and it is the one kept
DestroyAfter(w, a) ==
    LET n == Len(w.kids)
        F[i \in a..n] ==
            IF i = a THEN w
            ELSE IF w.kids[i].kind = "activity"
                 THEN Log([F[i - 1] EXCEPT
                              !.kids[i].destroyed = TRUE,
                              !.kids[i].timer = IF @ = 0 THEN FreshTimer(F[i - 1].kids) ELSE @],
                          IF w.kids[i].destroyed THEN "redestroy" ELSE "destroy",
                          i, w.kids[i].tag)
                 ELSE F[i - 1]
    IN F[n]

\* (mutant) WaitForAnimationFinish called without a timeout: no timer is set
exitTimeout_NoTimer(w, i) == w

\* the timeout callback of WaitForAnimationFinish for the activity at i:
\* removeEventListener(), resolve(), and with it this.remove()
exitTimeout(w, i) ==
    Log([w EXCEPT !.kids = RemoveAt(@, i)], "activityRemove", i, "timeout")

\* the animationend listener of WaitForAnimationFinish for the activity at i.
\* onTarget is whether the event's target is the activity itself, not a descendant
exitListener(w, i, onTarget) ==
    IF ~onTarget THEN w
    ELSE Log([w EXCEPT !.kids = RemoveAt(@, i)], "activityRemove", i, "animationend")

\* root.$_(tag + ":last-child:not([destroyed])"): index of the match, 0 for null
ActiveLastChild(ks, tag) ==
    IF ks # <<>> /\ IsLiveActivity(ks[Len(ks)], tag) THEN Len(ks) ELSE 0

\* (mutant) the lookup of a loaded instance never finds one
LoadedIdx_NeverFinds(ks, tag) == 0

\* root.$_(tag + ":not([destroyed])"): the first match in document order
LoadedIdx(ks, tag) ==
    IF LiveIdx(ks, tag) = {} THEN 0 ELSE Min(LiveIdx(ks, tag))

\* document.createElement(tag), root.appendChild.  The animate attribute (and with
\* it the noAnimation argument and navigationCounter) only selects a CSS animation.
CreateActivity(w, tag, args) ==
    LET a == Len(w.kids) + 1
    IN setupActivity(Log([w EXCEPT !.kids = Append(@, ActivityNode(tag))], "create", a, tag),
                     a, args)

\* (mutant) the arguments are delivered before the later siblings are destroyed
BringIntoView_DeliversFirst(w, loaded, args) ==
    DestroyAfter(setupActivity(w, loaded, args), loaded)

\* the branch of startActivityViaTag taken when the tag has a loaded instance
BringIntoView(w, loaded, args) ==
    setupActivity(DestroyAfter(w, loaded), loaded, args)

startActivityViaTag(w0, tag, args) ==
    LET w == Log([w0 EXCEPT !.app.currentActivityArguments = args], "start",
                 LoadedIdx(w0.kids, tag), tag)
        active == ActiveLastChild(w.kids, tag)
    IN IF ~w.app.started THEN Throw(w, "NotStarted")
       ELSE IF active # 0 THEN setupActivity(w, active, args)
       ELSE LET w1 == [w EXCEPT !.app.currentActivityTag = tag]
                loaded == LoadedIdx(w1.kids, tag)
            IN IF loaded # 0 THEN BringIntoView(w1, loaded, args)
               ELSE CreateActivity(w1, tag, args)

startActivityWithoutRouting(w, tag, args) ==
    startActivityViaTag(
        [w EXCEPT !.app.currentActivityStartedVia = "startActivityWithoutRouting",
                  !.app.currentlyConstructedActivity = tag],
        tag, args)

isPageArgumentsOutdated(w) ==
    w.app.currentActivityArguments # getPageArguments(w.loc.search)

\* (mutant) a refresh builds the screen anew
refreshCurrentActivity_Recreates(w) ==
    CreateActivity(w, w.app.currentActivityTag, getPageArguments(w.loc.search))

refreshCurrentActivity(w) ==
    LET a == CurrentIdx(w)
    IN IF a = 0 THEN Throw(w, "NoCurrentActivity")
       ELSE IF HasRefresh(w.kids[a].tag) THEN Log(w, "refresh", a, "")
       ELSE IF isPageArgumentsOutdated(w)
       THEN LET w1 == [w EXCEPT !.app.currentActivityArguments = getPageArguments(w.loc.search)]
            IN IF w1.app.currentActivityStartedVia = "route"
               THEN Log(w1, "switchedTo", a, getPageArguments(w1.loc.search))
               ELSE Throw(w1, "RefreshNotRoute")
       ELSE w

\* the local startActivity(r, b) of routeChanged
StartRouteActivity(w, r, b, initial) ==
    LET w1 == startActivityViaTag([w EXCEPT !.app.currentlyConstructedActivity = r],
                                  r, getPageArguments(w.loc.search))
    IN IF Threw(w1) THEN w1
       ELSE hashChange([w1 EXCEPT !.app.currentActivityStartedVia = b], TRUE)

\* the characters of a location.pathname
PathChars(path) ==
    CASE path = "/" -> <<"/">>
      [] path = "/settings" -> <<"/", "s", "e", "t", "t", "i", "n", "g", "s">>
      [] path = "/settings/login" ->
            <<"/", "s", "e", "t", "t", "i", "n", "g", "s", "/", "l", "o", "g", "i", "n">>
      [] path = "/o" -> <<"/", "o">>
      [] path = "/missing" -> <<"/", "m", "i", "s", "s", "i", "n", "g">>

\* the pathname with the given characters
PathStr(cs) == CHOOSE path \in {"/", "/settings", "/settings/login", "/o", "/missing"} :
                   PathChars(path) = cs

\* route.split("/").length
RouteSplitLength(route) == Len(Split(PathChars(route), "/"))

\* the SELF_POPULATE_ROUTING_HISTORY loop: startActivity once per path segment
PopulateHistory(w, route) ==
    LET F[i \in 0..RouteSplitLength(route)] ==
            IF i = 0 THEN w
            ELSE IF Threw(F[i - 1]) THEN F[i - 1]
            ELSE StartRouteActivity(F[i - 1], Routes(route), "route", TRUE)
    IN F[RouteSplitLength(route)]

\* the route override branch of routeChanged (execute() yields a class)
StartOverride(w, route) ==
    LET r == OverrideExecute(route)
        w1 == startActivityViaTag(
                  [w EXCEPT !.app.currentActivityStartedVia = "routeOverride",
                            !.app.currentlyConstructedActivity = r],
                  r, getPageArguments(w.loc.search))
    IN IF Threw(w1) THEN w1 ELSE hashChange(w1, TRUE)

\* (mutant) the missing route is ignored silently
NoActivityAtRoute_Silent(w) == w

\* no route, no override, no notFoundActivity
NoActivityAtRoute(w) == Throw(w, "NoActivityAtRoute")

\* routeChanged after the refresh test: overrides, then the route table
ResolveRoute(w, route, initial) ==
    IF route \in w.app.routeOverrides THEN StartOverride(w, route)
    ELSE LET w1 == [w EXCEPT !.app.currentRoute = route]
         IN IF route \in RoutePaths
            THEN IF initial /\ w1.app.SELF_POPULATE_ROUTING_HISTORY
                 THEN PopulateHistory(w1, route)
                 ELSE StartRouteActivity(w1, Routes(route), "route", initial)
            ELSE IF w1.app.notFoundActivity # "undefined"
            THEN StartRouteActivity(w1, w1.app.notFoundActivity, "route", initial)
            ELSE NoActivityAtRoute(w1)

\* this.currentRoute === route && this.routes[route]() === currentlyConstructedActivity:
\* "TypeError" when routes[route] is called and is undefined
RefreshTest(w, route) ==
    IF w.app.currentRoute # route THEN "no"
    ELSE IF route \notin RoutePaths THEN "TypeError"
    ELSE IF Routes(route) = w.app.currentlyConstructedActivity THEN "yes" ELSE "no"

routeChanged(w0, initial) ==
    LET route == w0.loc.pathname
        w == [w0 EXCEPT !.app.navigated = IF initial THEN @ ELSE TRUE]
        t == RefreshTest(w, route)
    IN CASE t = "TypeError" -> Throw(w, "TypeError")
         [] t = "yes" -> IF hash(w) = w.app.lastHash
                         THEN refreshCurrentActivity(w)
                         ELSE hashChange(w, FALSE)
         [] OTHER -> ResolveRoute(w, route, initial)

\* goto(route, data): pushState to "/" + route + extra (no fragment), then routeChanged
goto(w, route, data) ==
    IF ~w.app.started THEN Throw(w, "NotStarted")
    ELSE routeChanged([w EXCEPT !.loc = [pathname |-> route, search |-> GotoExtra(data), hash |-> ""]],
                      FALSE)

\* Array.prototype.join("/")
JoinSlash(parts) ==
    LET J[k \in 0..Len(parts)] ==
            IF k = 0 THEN <<>>
            ELSE IF k = 1 THEN parts[1]
            ELSE J[k - 1] \o <<"/">> \o parts[k]
    IN J[Len(parts)]

\* generateRouteHistoryFromCurrentRoute(): the current path and its ancestors
generateRouteHistoryFromCurrentRoute(w) ==
    LET parts == Split(PathChars(w.loc.pathname), "/")
    IN IF w.loc.pathname = "/" THEN <<"/">>
       ELSE [k \in DOMAIN parts |->
                PathStr(JoinSlash(SubSeq(parts, 1, k - 1)) \o <<"/">> \o parts[k])]

\* back(): history.back() takes effect later, with the popstate it causes
back(w) ==
    IF ~w.app.started THEN Throw(w, "NotStarted")
    ELSE IF w.app.navigated THEN Log(w, "historyBack", 0, "")
    ELSE LET rh == generateRouteHistoryFromCurrentRoute(w)
         IN IF Len(rh) >= 2 THEN goto(w, rh[Len(rh) - 1], NoArgs)
            ELSE goto(w, "/", NoArgs)

\* postApplicationStart after its await: the initial route change, then the
\* animationend listener is removed
initialRouteChange(w) ==
    LET w1 == routeChanged(w, TRUE)
    IN IF Threw(w1) THEN w1 ELSE [w1 EXCEPT !.app.listening = FALSE]

\* postApplicationStart up to its await: calculateActivitySize() resolves at once
\* unless this call created the DOMRect promises
postApplicationStart(w) ==
    LET w1 == calculateActivitySize(w)
    IN IF w.app.calc = <<>> /\ w1.app.calc # <<>>
       THEN [w1 EXCEPT !.app.awaitingSize = TRUE]
       ELSE initialRouteChange(w1)

---------------------------------------------------------------------------
(* Frames and animation events on a destroyed modal: destroyAllModals, sleepFrames *)

\* one requestAnimationFrame callback of sleepFrames(nFrames): n++ === nFrames resolves
WaitResolves(n) == n = ModalSleepFrames

\* the .then of sleepFrames(2) removes the element unless an animation was seen to start
\* (mutant) the resolved frame wait leaves the element in place
FrameRemoves_Never(m) == FALSE

FrameRemoves(m) == \E n \in m.waits : WaitResolves(n)

FrameWaits(m) == {n + 1 : n \in {x \in m.waits : ~WaitResolves(x)}}

FrameModals(ms) ==
    LET kept == SelectSeq(ms, LAMBDA m : ~FrameRemoves(m))
    IN [j \in DOMAIN kept |-> [kept[j] EXCEPT !.waits = FrameWaits(kept[j])]]

ModalCount(ks) ==
    LET F[i \in 0..Len(ks)] == IF i = 0 THEN 0 ELSE F[i - 1] + Len(ks[i].modals)
    IN F[Len(ks)]

\* one rendered frame: every pending sleepFrames callback runs
frame(w) ==
    LET ks == [i \in DOMAIN w.kids |-> [w.kids[i] EXCEPT !.modals = FrameModals(@)]]
        removed == ModalCount(w.kids) - ModalCount(ks)
        w1 == [w EXCEPT !.kids = ks]
    IN IF removed > 0 THEN Log(w1, "modalRemove", removed, "frame") ELSE w1

\* the animationstart listeners added by destroyAllModals: aniStarted = true in
\* every closure, whose sleepFrames callback then does nothing, and an
\* animationend listener that removes the element
animationStart(m) == [m EXCEPT !.waits = {}, !.endListener = TRUE]

---------------------------------------------------------------------------
(* State *)

InitApp ==
    [started |-> TRUE,
     listening |-> TRUE,
     currentRoute |-> "",
     currentlyConstructedActivity |-> "undefined",
     currentActivityTag |-> "undefined",
     currentActivityArguments |-> "undefined",
     currentActivityStartedVia |-> "route",
     navigated |-> FALSE,
     lastHash |-> "",
     title |-> TitleText("", <<>>, ""),
     notFoundActivity |-> "undefined",
     routeOverrides |-> OverridePaths,
     fixedComponents |-> <<>>,
     fixedComponentsHidden |-> FALSE,
     calc |-> <<>>,
     awaitingSize |-> FALSE,
     insets |-> ZeroInsets,
     ThrowFatalOnNullModalObject |-> TRUE,
     SELF_POPULATE_ROUTING_HISTORY |-> TRUE]

InitObs ==
    [op |-> "start", err |-> "none", events |-> <<>>,
     preActive |-> 0, pathSame |-> FALSE, argsSame |-> FALSE, viaRouting |-> TRUE,
     cycle |-> "none"]

\* the state when start() returns: started, listeners registered, no activity yet
Init ==
    /\ app = InitApp
    /\ kids = <<>>
    /\ loc \in [pathname : Paths, search : Searches, hash : {""}]
    /\ obs = InitObs
    /\ components = NoComponents
    /\ history = NoHistory
    /\ preload = NoPreload

WithinBounds(w) ==
    /\ Len(w.kids) <= MaxKids
    /\ \A i \in DOMAIN w.kids : Len(w.kids[i].modals) <= MaxModals

\* a handler starts, with the location l it will see: what it is compared against.
\* preActive is the activity getCurrentActivity() yields before the handler,
\* pathSame whether l is the path the location already had,
\* argsSame whether l carries the arguments last recorded as delivered,
\* viaRouting whether the current activity was started by routeChanged.
BeginAt(op, l) ==
    [World EXCEPT !.loc = l,
                  !.obs = [op |-> op, err |-> "none", events |-> <<>>,
                           preActive |-> CurrentIdx(World),
                           pathSame |-> loc.pathname = l.pathname,
                           argsSame |-> app.currentActivityArguments = getPageArguments(l.search),
                           viaRouting |-> app.currentActivityStartedVia # "startActivityWithoutRouting",
                           cycle |-> obs.cycle]]

Begin(op) == BeginAt(op, loc)

\* the fixed-component part of a world
FixedState(w) ==
    <<w.app.fixedComponents, w.app.fixedComponentsHidden, w.app.calc, w.app.insets,
      SelectSeq(w.kids, LAMBDA n : n.kind = "fixed")>>

\* one fixed component, registered at the bottom and connected, with extent 40
OneBottomRegion(w) ==
    /\ Len(w.app.fixedComponents) = 1
    /\ \E i \in DOMAIN w.kids :
           /\ w.kids[i].kind = "fixed" /\ w.kids[i].id = w.app.fixedComponents[1]
           /\ w.kids[i].anchor = "bottom" /\ w.kids[i].extent = 40
           /\ ~w.kids[i].connecting

\* ... visible and measured
OneBottomMeasured(w) ==
    /\ OneBottomRegion(w)
    /\ ~w.app.fixedComponentsHidden /\ w.app.calc = <<>>
    /\ w.app.insets = [ZeroInsets EXCEPT !.bottom = 40]

\* history of the hide / show / measure sequence on one measured bottom region:
\* "hidden" after hideFixedComponents hid it, "shown" after a following
\* showFixedComponents, "restored" after the measurement that show started;
\* any other change of the fixed components ends the sequence
NextCycle(w) ==
    IF FixedState(w) = FixedState(World) THEN obs.cycle
    ELSE IF OneBottomMeasured(World) /\ w.app.fixedComponentsHidden
              /\ w.app.fixedComponents = app.fixedComponents
         THEN "hidden"
    ELSE IF obs.cycle = "hidden" /\ w.obs.op = "showFixedComponents"
         THEN "shown"
    ELSE IF obs.cycle = "shown" /\ w.obs.op = "sizesMeasured"
         THEN "restored"
    ELSE "none"

Commit(w) ==
    /\ WithinBounds(w)
    /\ app' = w.app
    /\ kids' = w.kids
    /\ loc' = w.loc
    /\ obs' = [w.obs EXCEPT !.cycle = NextCycle(w)]
    /\ UNCHANGED <<components, history, preload>>

\* a handler that pushed a history entry ends: h is window.history after it
CommitWith(w, h) ==
    /\ WithinBounds(w)
    /\ app' = w.app
    /\ kids' = w.kids
    /\ loc' = w.loc
    /\ obs' = [w.obs EXCEPT !.cycle = NextCycle(w)]
    /\ history' = h
    /\ UNCHANGED <<components, preload>>

---------------------------------------------------------------------------
(* Actions: one per handler *)

\* animationend on $root while postApplicationStart is registered, also while an
\* earlier call of it is suspended at its await
InitialRoute ==
    /\ app.listening
    /\ Commit(postApplicationStart(Begin("initialRoute")))

\* screens and the user navigate once the initial route has been handled
Goto ==
    \E route \in Paths, search \in Searches :
        /\ ~app.listening
        /\ Commit(goto(BeginAt("nav", [pathname |-> route, search |-> search, hash |-> ""]),
                    route, getPageArguments(search)))

\* the popstate listener: the location is already the history entry's, one of L
PopState(L) ==
    \E l \in L :
        /\ ~app.listening
        /\ Commit(routeChanged(BeginAt("nav", l), FALSE))

StartActivityWithoutRouting ==
    \E tag \in Types :
        /\ ~app.listening
        /\ Commit(startActivityWithoutRouting(Begin("startActivityWithoutRouting"), tag,
                                           getPageArguments(loc.search)))

RegisterNotFoundActivity ==
    LET w == Begin("registerNotFoundActivity")
    IN Commit(IF app.notFoundActivity # "undefined" THEN Throw(w, "AlreadyRegistered")
              ELSE [w EXCEPT !.app.notFoundActivity = "NotFound"])

\* addRouteOverride(check, execute) with a check that matches the path
AddRouteOverride(P) ==
    \E path \in P :
        Commit([Begin("addRouteOverride") EXCEPT !.app.routeOverrides = @ \cup {path}])

\* WaitForAnimationFinish(this, 600) of Activity.destroy resolves: this.remove()
ActivityRemoved ==
    \E i \in DOMAIN kids :
        /\ kids[i].kind = "activity" /\ kids[i].destroyed
        /\ Commit([Begin("activityRemoved") EXCEPT !.kids = RemoveAt(kids, i)])

\* the timeout with handle k fires
ExitTimeout(k) ==
    \E i \in DOMAIN kids :
        /\ kids[i].kind = "activity" /\ kids[i].destroyed /\ kids[i].timer = k
        /\ Commit(exitTimeout(Begin("exitTimeout"), i))

\* animationend reaches a destroyed activity, from itself or from a descendant
ExitAnimationEnd ==
    \E i \in DOMAIN kids, onTarget \in BOOLEAN :
        /\ kids[i].kind = "activity" /\ kids[i].destroyed
        /\ Commit(exitListener(Begin("exitAnimationEnd"), i, onTarget))

RegisterFixedComponent ==
    \E anchor \in Anchors, extent \in Extents :
        Commit(registerFixedComponent(Begin("registerFixedComponent"), anchor, extent))

FixedComponentConnected ==
    \E i \in DOMAIN kids :
        /\ kids[i].kind = "fixed" /\ kids[i].connecting
        /\ Commit(fixedComponentConnected(Begin("fixedComponentConnected"), kids[i].id))

\* every awaited DOMRect has arrived: the .then callback, and with its resolve()
\* the postApplicationStart suspended on this calculation
SizesMeasured ==
    /\ app.calc # <<>>
    /\ Commit(IF app.awaitingSize
              THEN initialRouteChange(sizesMeasured(
                       [Begin("initialRoute") EXCEPT !.app.awaitingSize = FALSE]))
              ELSE sizesMeasured(Begin("sizesMeasured")))

ShowFixedComponents == Commit(showFixedComponents(Begin("showFixedComponents")))

FixedIds == 1..MaxKids

UnregisterFixedComponent ==
    \E id \in FixedIds, failSilently \in BOOLEAN :
        Commit(unregisterFixedComponent(Begin("unregisterFixedComponent"), id, failSilently))

UnregisterFixedComponents ==
    Commit(unregisterFixedComponents(Begin("unregisterFixedComponents")))

AttachModal == Commit(attachModal(Begin("attachModal")))

\* Activity.hookModal(name, callback) on the current activity
HookModal(T) ==
    \E t \in T, f \in {"modal", "null"} :
        /\ CurrentIdx(World) # 0
        /\ Commit([Begin("hookModal") EXCEPT !.kids[CurrentIdx(World)].hooks[t] = f])

\* a rendered frame while some sleepFrames callback is pending
Frame ==
    /\ \E i \in DOMAIN kids : \E j \in DOMAIN kids[i].modals : kids[i].modals[j].waits # {}
    /\ Commit(frame(Begin("frame")))

HasModal(id) == \E i \in DOMAIN kids : \E j \in DOMAIN kids[i].modals : kids[i].modals[j].id = id

ModalHost(id) == CHOOSE i \in DOMAIN kids : \E j \in DOMAIN kids[i].modals : kids[i].modals[j].id = id

ModalAt(id) == CHOOSE j \in DOMAIN kids[ModalHost(id)].modals : kids[ModalHost(id)].modals[j].id = id

ModalOf(id) == kids[ModalHost(id)].modals[ModalAt(id)]

\* Activity.startModal(name, properties) on the current activity
StartModal(Calls) ==
    \E call \in Calls :
        /\ CurrentIdx(World) # 0
        /\ Commit(startModal(Begin("startModal"), call))

\* animationstart on the overlay id.  Only destroyAllModals listens for it, so the
\* event matters on an overlay marked destroyed, and once
AnimationStart(id) ==
    /\ HasModal(id)
    /\ ModalOf(id).destroyed /\ ~ModalOf(id).endListener
    /\ Commit([Begin("animationstart") EXCEPT
                 !.kids[ModalHost(id)].modals[ModalAt(id)] = animationStart(@)])

\* animationend on the overlay id after its animationstart was heard:
\* the listener removes the element
AnimationEnd(id) ==
    /\ HasModal(id)
    /\ ModalOf(id).endListener
    /\ Commit(Log([Begin("animationend") EXCEPT !.kids[ModalHost(id)].modals = RemoveAt(@, ModalAt(id))],
                  "modalRemove", id, "animationend"))

\* animationend on the overlay id, whatever listeners it has
ModalAnimationEnd(id) ==
    /\ HasModal(id)
    /\ HasEndListener(ModalOf(id))
    /\ Commit(modalAnimationEnd(Begin("modalAnimationEnd"), ModalHost(id), ModalAt(id)))

\* the current activity appends an overlay itself
AppendModal ==
    /\ CurrentIdx(World) # 0
    /\ Commit(appendModal(Begin("appendModal")))

\* removeModal() on an overlay in the document: a click on its backdrop, or a call
RemoveModal ==
    \E a \in DOMAIN kids : \E j \in DOMAIN kids[a].modals : \E historyState \in BOOLEAN :
        Commit(removeModal(Begin("removeModal"), a, j, historyState))

\* goto(route) with the entry its pushState adds to window.history
GotoPushed(P) ==
    \E route \in P :
        /\ ~app.listening /\ history.at < MaxHistory
        /\ CommitWith(goto(BeginAt("nav", [pathname |-> route, search |-> "", hash |-> ""]),
                           route, NoArgs),
                      pushState(history, "GREENFRAME - goto",
                                [pathname |-> route, search |-> "", hash |-> ""]))

\* the browser's back or forward button, or a pending history.back(): the location
\* becomes that of the neighbouring entry and popstate is dispatched
Traverse ==
    \E d \in {-1, 1} :
        /\ ~app.listening /\ history.at + d \in DOMAIN history.entries
        /\ CommitWith(routeChanged(BeginAt("nav", history.entries[history.at + d].loc), FALSE),
                      [history EXCEPT !.at = @ + d])

\* back()
Back ==
    LET w == back(Begin("back"))
    IN /\ ~app.listening /\ history.at < MaxHistory
       /\ CommitWith(w, IF w.loc = loc /\ w.obs.events # <<>>
                           /\ w.obs.events[1].e = "historyBack"
                        THEN history
                        ELSE pushState(history, "GREENFRAME - goto", w.loc))

\* start(args) up to its await of preloadResources()
Start ==
    /\ preload.pc = "constructed"
    /\ preload' = [preloadResources(preload) EXCEPT !.pc = "awaiting"]
    /\ UNCHANGED <<app, kids, loc, obs, history, components>>

\* an image of the preload container finishes loading
ImageLoaded ==
    \E i \in DOMAIN preload.children :
        /\ preload.children[i].img /\ ~preload.children[i].complete
        /\ preload' = imageLoaded(preload, i)
        /\ UNCHANGED <<app, kids, loc, obs, history, components>>

\* start(args) after the await: started, $root appended, listeners registered
Started ==
    /\ preload.pc = "awaiting" /\ preload.resolved
    /\ preload' = [preload EXCEPT !.pc = "started"]
    /\ app' = [app EXCEPT !.started = TRUE, !.listening = TRUE]
    /\ UNCHANGED <<kids, loc, obs, history, components>>

\* goto(route, data) with an argument map
GotoData ==
    \E d \in QueryData : Commit(gotoData(Begin("gotoData"), d))

\* query strings that assign a key more than once
RepeatedKeySearches ==
    {<<"?", "a", "=", "a", "&", "a", "=", "b">>,
     <<"?", "a", "=", "a", "&", "b", "=", "a", "&", "a", "=", "b">>,
     <<"?", "b", "=", "a", "&", "b", "=", "b", "&", "b", "=", "a">>}

\* a popstate on a location with such a query
PopStateQuery ==
    \E search \in RepeatedKeySearches : Commit(popStateQuery(Begin("popStateQuery"), search))

\* history entries without a fragment
RouterLocations == [pathname : Paths, search : Searches, hash : {""}]

Next ==
    \/ InitialRoute
    \/ Goto
    \/ PopState(RouterLocations)
    \/ StartActivityWithoutRouting
    \/ RegisterNotFoundActivity
    \/ ActivityRemoved

Spec == Init /\ [][Next]_vars

\* handles of the timeouts of destroyed activities
TimerHandles == 1..MaxKids

\* the router with the waits of destroyed activities; a timeout that is set fires
ExitNext ==
    \/ InitialRoute
    \/ Goto
    \/ ExitAnimationEnd
    \/ \E k \in TimerHandles : ExitTimeout(k)

ExitSpec == Init /\ [][ExitNext]_vars /\ \A k \in TimerHandles : WF_vars(ExitTimeout(k))

\* the router with a route override added while the application runs
OverrideNext ==
    \/ InitialRoute
    \/ Goto
    \/ PopState(RouterLocations)
    \/ AddRouteOverride({"/settings"})

LateOverrideSpec == Init /\ [][OverrideNext]_vars

\* argument maps through goto and back through getPageArguments
QueryNext ==
    \/ GotoData
    \/ PopStateQuery

QuerySpec == Init /\ [][QueryNext]_vars

---------------------------------------------------------------------------
(* The overlays of one screen: fragment events, frames and animation events *)

\* one screen holds the overlays here, so their ids are those of one container
ModalIds == 1..MaxModals

\* history entries of the start screen, with and without a fragment
ModalLocations == [pathname : {"/"}, search : {""}, hash : Hashes]

ModalInit ==
    /\ app = InitApp
    /\ kids = <<>>
    /\ loc \in ModalLocations
    /\ obs = InitObs
    /\ components = NoComponents
    /\ history = NoHistory
    /\ preload = NoPreload

ModalNext ==
    \/ InitialRoute
    \/ PopState(ModalLocations)
    \/ HookModal({"m"})
    \/ AttachModal
    \/ Frame
    \/ \E id \in ModalIds : AnimationStart(id)
    \/ \E id \in ModalIds : AnimationEnd(id)

ModalSpec == ModalInit /\ [][ModalNext]_vars

\* a tab opened on the application, with its history: goto, back() and the browser's
\* back and forward buttons
BackPaths == {"/", "/settings", "/settings/login"}

BackInit ==
    /\ app = InitApp
    /\ kids = <<>>
    /\ loc \in [pathname : BackPaths, search : {""}, hash : {""}]
    /\ obs = InitObs
    /\ components = NoComponents
    /\ history = [entries |-> <<HistoryEntry(loc, "null")>>, at |-> 1]
    /\ preload = NoPreload

BackNext ==
    \/ InitialRoute
    \/ GotoPushed(BackPaths)
    \/ Traverse
    \/ Back

BackSpec == BackInit /\ [][BackNext]_vars

\* start() from its call, over the contents of the preload container
PreloadChildren == {PreloadChild(img, complete, marked) :
                      img \in BOOLEAN, complete \in BOOLEAN, marked \in BOOLEAN}

PreloadInit ==
    /\ app = [InitApp EXCEPT !.started = FALSE, !.listening = FALSE]
    /\ kids = <<>>
    /\ loc \in [pathname : {"/", "/settings"}, search : {""}, hash : {""}]
    /\ obs = InitObs
    /\ components = NoComponents
    /\ history = NoHistory
    /\ \E n \in 0..MaxPreload : \E cs \in [1..n -> {c \in PreloadChildren : c.img \/ ~c.complete}] :
           preload = [children |-> cs, pc |-> "constructed", resolved |-> FALSE]

PreloadNext ==
    \/ Start
    \/ ImageLoaded
    \/ Started
    \/ InitialRoute

PreloadSpec == PreloadInit /\ [][PreloadNext]_vars

\* start() is called, images finish loading, and a resolved await is resumed
PreloadFairSpec ==
    PreloadSpec /\ WF_vars(Start) /\ WF_vars(ImageLoaded) /\ WF_vars(Started)

\* the same screen, with overlays removed through removeModal as well
RemoveNext ==
    \/ InitialRoute
    \/ PopState(ModalLocations)
    \/ HookModal({"m"})
    \/ AttachModal
    \/ RemoveModal
    \/ Frame
    \/ \E id \in ModalIds : AnimationEnd(id)

RemoveSpec == ModalInit /\ [][RemoveNext]_vars

\* overlays of the three types, removed through removeModal; frames keep coming,
\* an animationend comes only to an overlay that has an animation
PromiseNext ==
    \/ InitialRoute
    \/ PopState(ModalLocations)
    \/ HookModal({"m"})
    \/ AttachModal
    \/ AppendModal
    \/ RemoveModal
    \/ Frame
    \/ \E id \in ModalIds : ModalAnimationEnd(id)

PromiseSpec == ModalInit /\ [][PromiseNext]_vars /\ WF_vars(Frame)

\* fragments with arguments, overlays started through startModal
HashFragments ==
    {"", "#m", "#checkout", "#checkout?qty=2", "#m?s=%22a%22&ok=true&n=17", "#m?qty"}

HashLocations == [pathname : {"/"}, search : {""}, hash : HashFragments]

HashInit ==
    /\ \E strict \in BOOLEAN : app = [InitApp EXCEPT !.ThrowFatalOnNullModalObject = strict]
    /\ kids = <<>>
    /\ loc \in HashLocations
    /\ obs = InitObs
    /\ components = NoComponents
    /\ history = NoHistory
    /\ preload = NoPreload

HashNext ==
    \/ InitialRoute
    \/ PopState(HashLocations)
    \/ HookModal(Tokens)
    \/ StartModal(StartModalCalls)
    \/ Frame

HashSpec == HashInit /\ [][HashNext]_vars

\* startModal with properties of each JSON type, on a page opened without a fragment
PropertyCalls ==
    {[name |-> "m", properties |-> <<>>],
     [name |-> "m", properties |-> <<Property(<<"s">>, JsonValue("string", 0, FALSE, <<"a">>))>>],
     [name |-> "m", properties |-> <<Property(<<"s">>, JsonValue("string", 0, FALSE, <<"&">>))>>],
     [name |-> "m", properties |-> <<Property(<<"s">>, JsonValue("string", 0, FALSE, <<"%">>))>>],
     [name |-> "m", properties |-> <<Property(<<"n">>, JsonValue("number", 17, FALSE, <<>>)),
                                     Property(<<"o", "k">>, JsonValue("boolean", 0, TRUE, <<>>))>>],
     [name |-> "checkout",
      properties |-> <<Property(<<"q", "t", "y">>, JsonValue("number", 2, FALSE, <<>>))>>]}

PropertyInit ==
    /\ HashInit
    /\ loc.hash = ""

PropertyNext ==
    \/ InitialRoute
    \/ HookModal(Tokens)
    \/ StartModal(PropertyCalls)
    \/ Frame

PropertySpec == PropertyInit /\ [][PropertyNext]_vars

\* two screens, each with its own registrations, and fragments on both routes
ScreenLocations == [pathname : {"/", "/settings"}, search : {""}, hash : Hashes]

ScreenInit ==
    /\ app = InitApp
    /\ kids = <<>>
    /\ loc \in ScreenLocations
    /\ obs = InitObs
    /\ components = NoComponents
    /\ history = NoHistory
    /\ preload = NoPreload

ScreenNext ==
    \/ InitialRoute
    \/ PopState(ScreenLocations)
    \/ HookModal({"m"})
    \/ Frame
    \/ ActivityRemoved

ScreenSpec == ScreenInit /\ [][ScreenNext]_vars

\* the same screen without overlay factories: overlays are attached, and a fragment
\* event destroys them
OverlayNext ==
    \/ InitialRoute
    \/ PopState(ModalLocations)
    \/ AttachModal
    \/ Frame
    \/ \E id \in ModalIds : AnimationStart(id)
    \/ \E id \in ModalIds : AnimationEnd(id)

\* the browser keeps rendering frames, and an animation that started ends
OverlaySpec ==
    /\ ModalInit /\ [][OverlayNext]_vars
    /\ WF_vars(Frame)
    /\ \A id \in ModalIds : WF_vars(AnimationEnd(id))

---------------------------------------------------------------------------
(* Fixed components: registration, hiding through overlays, measurement *)

FixedLocations == [pathname : {"/"}, search : {""}, hash : {""}]

FixedInit ==
    /\ app = InitApp
    /\ kids = <<>>
    /\ loc \in FixedLocations
    /\ obs = InitObs
    /\ components = NoComponents
    /\ history = NoHistory
    /\ preload = NoPreload

FixedNext ==
    \/ InitialRoute
    \/ RegisterFixedComponent
    \/ FixedComponentConnected
    \/ SizesMeasured
    \/ AttachModal
    \/ ShowFixedComponents

FixedSpec == FixedInit /\ [][FixedNext]_vars

\* start-up on a plain route, on the route of a screen with a refresh hook and on
\* an overridden route, with fixed components registered before the root's animation ends
StartupInit ==
    /\ app = InitApp
    /\ kids = <<>>
    /\ loc \in [pathname : {"/", "/settings", "/o"}, search : {""}, hash : {""}]
    /\ obs = InitObs
    /\ components = NoComponents
    /\ history = NoHistory
    /\ preload = NoPreload

StartupNext ==
    \/ InitialRoute
    \/ RegisterFixedComponent
    \/ FixedComponentConnected
    \/ SizesMeasured

StartupSpec == StartupInit /\ [][StartupNext]_vars

\* register and unregister calls on an application that shows no activity yet;
\* attachModal then hides the fixed components before it fails
RegionNext ==
    \/ RegisterFixedComponent
    \/ FixedComponentConnected
    \/ SizesMeasured
    \/ UnregisterFixedComponent
    \/ AttachModal
    \/ ShowFixedComponents

RegionSpec == FixedInit /\ [][RegionNext]_vars

\* registrations followed by unregisterFixedComponents, as the state setter calls it
ClearNext ==
    \/ RegisterFixedComponent
    \/ FixedComponentConnected
    \/ SizesMeasured
    \/ UnregisterFixedComponents

ClearSpec == FixedInit /\ [][ClearNext]_vars

---------------------------------------------------------------------------
(* Components: mounting, stylesheet loads, setup *)

UnitIds == DOMAIN components.units

ConnectedCallback ==
    \E id \in UnitIds :
        /\ components.units[id].connectedCallbackRan < MaxMounts
        /\ components' = connectedCallback(components, id)
        /\ UNCHANGED <<app, kids, loc, obs, history, preload>>

SetupResolved ==
    \E id \in UnitIds :
        /\ components.units[id].pc = "awaitSetup"
        /\ SetupCanResolve(components.units[id])
        /\ components' = setupResolved(components, id)
        /\ UNCHANGED <<app, kids, loc, obs, history, preload>>

LinkLoaded ==
    \E id \in UnitIds : \E i \in DOMAIN components.units[id].root :
        /\ IsLink(components.units[id].root[i])
        /\ ~components.units[id].root[i].loaded
        /\ components' = linkLoaded(components, id, i)
        /\ UNCHANGED <<app, kids, loc, obs, history, preload>>

ComponentNext ==
    \/ ConnectedCallback
    \/ SetupResolved
    \/ LinkLoaded

\* the frame-driven component of the model
FrameUnitNow == components.units[1]

\* connectedCallback() up to its await
FrameConnected ==
    /\ ~FrameUnitNow.connected /\ ~FrameUnitNow.killSwitch
    /\ components' = [components EXCEPT !.units[1].connected = TRUE, !.units[1].connecting = TRUE]
    /\ UNCHANGED <<app, kids, loc, obs, history, preload>>

\* super.connectedCallback() resolved: requestAnimationFrame(this.frame)
FrameSuperResolved ==
    /\ FrameUnitNow.connecting
    /\ components' = [components EXCEPT !.units[1].connecting = FALSE, !.units[1].requested = TRUE]
    /\ UNCHANGED <<app, kids, loc, obs, history, preload>>

\* the browser runs the requested frame
AnimationFrame ==
    /\ FrameUnitNow.requested
    /\ components' = [components EXCEPT !.units[1] = frameCallback(@)]
    /\ UNCHANGED <<app, kids, loc, obs, history, preload>>

\* Promise.all(promises) of a frame resolved: requestAnimationFrame(this.frame)
FrameCallsResolved ==
    /\ FrameUnitNow.pending
    /\ components' = [components EXCEPT !.units[1].pending = FALSE, !.units[1].requested = TRUE]
    /\ UNCHANGED <<app, kids, loc, obs, history, preload>>

\* the component is removed from the document between frames
FrameDisconnected ==
    /\ FrameUnitNow.connected
    /\ components' = [components EXCEPT !.units[1] = frameDisconnected([@ EXCEPT !.invoked = 0])]
    /\ UNCHANGED <<app, kids, loc, obs, history, preload>>

\* one frame-driven component with any frame calls registered before it is connected
FrameInit ==
    /\ app = InitApp
    /\ kids = <<>>
    /\ loc \in FixedLocations
    /\ obs = InitObs
    /\ history = NoHistory
    /\ preload = NoPreload
    /\ \E calls \in UNION {[1..n -> FrameCallKinds] : n \in 0..MaxFrameCalls} :
          components = [NoComponents EXCEPT !.units = <<FrameUnit(calls)>>]

FrameNext ==
    \/ FrameConnected
    \/ FrameSuperResolved
    \/ AnimationFrame
    \/ FrameCallsResolved
    \/ FrameDisconnected

\* a requested frame is run by the browser
FrameSpec == FrameInit /\ [][FrameNext]_vars /\ WF_vars(AnimationFrame)

\* one component of any type, load behaviour and stylesheet use
MountInit ==
    /\ app = InitApp
    /\ kids = <<>>
    /\ loc \in FixedLocations
    /\ obs = InitObs
    /\ history = NoHistory
    /\ preload = NoPreload
    /\ \E tag \in UnitTags, lb \in LoadBehaviors, unitCss \in BOOLEAN, setupCss \in SetupCss,
          n \in 0..MaxCommon :
          components = [NoComponents EXCEPT !.units = <<Unit(tag, lb, unitCss, setupCss)>>,
                                            !.commonCSSBlobs = n]

MountSpec == MountInit /\ [][ComponentNext]_vars

\* several components of the two types, hidden before ready
LayoutInit ==
    /\ app = InitApp
    /\ kids = <<>>
    /\ loc \in FixedLocations
    /\ obs = InitObs
    /\ history = NoHistory
    /\ preload = NoPreload
    /\ \E tags \in [1..MaxUnits -> UnitTags] :
          components = [NoComponents EXCEPT
                           !.units = [i \in 1..MaxUnits |->
                                         Unit(tags[i], "hideBeforeReady", FALSE, "none")]]

LayoutSpec == LayoutInit /\ [][ComponentNext]_vars

---------------------------------------------------------------------------
(* What a handler is observed to have done *)

EventIdx(e) == {i \in DOMAIN obs.events : obs.events[i].e = e}

NoneCreatedOrDestroyed == EventIdx("create") = {} /\ EventIdx("destroy") = {}

\* the handler was a route change: a goto, a popstate or the initial route
NavOp == obs.op \in {"nav", "initialRoute"}

\* the constructor the routing configuration yields for a path:
\* the matching override, else the route table entry, else the not-found handler
Resolve(path) ==
    IF path \in app.routeOverrides THEN OverrideExecute(path)
    ELSE IF path \in RoutePaths THEN Routes(path)
    ELSE app.notFoundActivity

\* the route change went to a location whose screen type is the active screen's
ToActiveType ==
    /\ NavOp
    /\ obs.preActive # 0
    /\ kids[obs.preActive].tag = Resolve(loc.pathname)

\* ... and to the very path the location had, the screen having been started by the router
ToActiveRoute == ToActiveType /\ obs.pathSame /\ obs.viaRouting

\* the number of children of $root when event i was logged
KidsLenAt(i) == Len(kids) - Cardinality({k \in EventIdx("create") : k > i})

\* the first switchedTo after event i, 0 if none
NextSwitchedTo(i) ==
    LET S == {j \in EventIdx("switchedTo") : j > i}
    IN IF S = {} THEN 0 ELSE Min(S)

\* event i is a startActivityViaTag whose tag had a live instance that was not the last child
ReuseStart(i) ==
    /\ obs.events[i].e = "start"
    /\ obs.events[i].id # 0
    /\ obs.events[i].id < KidsLenAt(i)

---------------------------------------------------------------------------
(* Claims *)

\* C1: the application root never holds two instances of one screen type that are
\* both not marked destroyed.
C1_OneLiveInstancePerType == \A t \in Types : Cardinality(LiveIdx(kids, t)) <= 1

\* C1 witness: a type was started again while its destroyed instance is still attached.
C1_Witness ==
    \E i, j \in DOMAIN kids :
        /\ i < j /\ kids[i].kind = "activity" /\ kids[i].tag = kids[j].tag
        /\ kids[i].destroyed /\ ~kids[j].destroyed

\* C2: when startActivityViaTag targets a type with a live instance that is not the
\* last child, nothing is created, every activity after that instance is marked
\* destroyed by a destroy() call, and all of that happens before switchedTo is
\* delivered to the reused instance.
C2_ReuseDestroysLaterThenDelivers ==
    \A i \in DOMAIN obs.events :
        ReuseStart(i) =>
            LET L == obs.events[i].id
                j == NextSwitchedTo(i)
            IN /\ j # 0
               /\ obs.events[j].id = L
               /\ \A k \in (i + 1)..(j - 1) : obs.events[k].e \in {"destroy", "redestroy"}
               /\ \A p \in (L + 1)..KidsLenAt(i) :
                     kids[p].kind = "activity" =>
                         /\ kids[p].destroyed
                         /\ \E k \in (i + 1)..(j - 1) : obs.events[k].id = p

\* C2 witness: a reuse that marked a live later activity destroyed.
C2_Witness ==
    \E i \in DOMAIN obs.events :
        /\ ReuseStart(i)
        /\ \E k \in EventIdx("destroy") : k > i /\ k < NextSwitchedTo(i)

\* C3: a route change to the active screen's type with the arguments last delivered
\* creates no instance, destroys none, and leaves the same instance active.
C3_SameArgsKeepsInstance ==
    (ToActiveType /\ obs.argsSame) =>
        /\ NoneCreatedOrDestroyed
        /\ CurrentIdx(World) = obs.preActive

\* C3 witness: such a route change to the path already shown, handled without error.
C3_Witness == ToActiveRoute /\ obs.argsSame /\ obs.err = "none"

\* C4 (as claimed), for a screen without a refresh() hook: a route change to the
\* active screen's route with changed arguments keeps the instance, creates nothing
\* and calls switchedTo on it with the new arguments.
C4_ChangedArgsRedelivered ==
    (ToActiveRoute /\ ~obs.argsSame /\ ~HasRefresh(kids[obs.preActive].tag)) =>
        /\ CurrentIdx(World) = obs.preActive
        /\ EventIdx("create") = {}
        /\ \E j \in EventIdx("switchedTo") :
              /\ obs.events[j].id = obs.preActive
              /\ obs.events[j].arg = getPageArguments(loc.search)

\* C5: a route change to a path with no route, no override and no not-found handler
\* throws and neither creates nor destroys an instance.
C5_NoRouteNoHandlerThrows ==
    (/\ NavOp
     /\ loc.pathname \notin (RoutePaths \cup OverridePaths)
     /\ app.notFoundActivity = "undefined") =>
        /\ obs.err # "none"
        /\ NoneCreatedOrDestroyed

\* C5 witness: the route change threw the missing-handler error with screens loaded.
C5_Witness ==
    /\ NavOp /\ loc.pathname \notin (RoutePaths \cup OverridePaths)
    /\ app.notFoundActivity = "undefined"
    /\ obs.err = "NoActivityAtRoute" /\ kids # <<>>

\* C6 (as claimed): with a not-found handler registered, every route change to a path
\* with no route makes the handler's screen active and raises no error.
C6_NotFoundHandlerRoutes ==
    (/\ NavOp
     /\ loc.pathname \notin (RoutePaths \cup OverridePaths)
     /\ app.notFoundActivity # "undefined") =>
        /\ obs.err = "none"
        /\ CurrentIdx(World) # 0
        /\ kids[CurrentIdx(World)].tag = app.notFoundActivity

\* C7 (as claimed): a route change to the route of the active screen never throws.
C7_ActiveRouteNeverThrows == ToActiveRoute => obs.err = "none"

---------------------------------------------------------------------------
(* Claims about overlays *)

\* the last event of the hashChange call that logged event i
SegEnd(i) ==
    LET S == {j \in EventIdx("hashChange") : j > i}
    IN IF S = {} THEN Len(obs.events) ELSE Min(S) - 1

\* the overlay creations and destructions of the hashChange call that logged event i
OverlayChanges(i) ==
    {k \in (i + 1)..SegEnd(i) : obs.events[k].e \in {"modalCreate", "modalDestroy", "modalRedestroy"}}

\* C8 (as claimed): when hashChange runs and the active screen's container holds an
\* overlay tagged with the token that is not marked destroyed, no overlay is created or
\* destroyed and the fixed components end up hidden; when the only overlays tagged
\* with the token are marked destroyed and the screen has a factory for the token
\* that yields an overlay, a new overlay is created.
C8_TaggedOverlayHandling ==
    \A i \in EventIdx("tagged") :
        LET a == obs.events[i].id
            token == obs.events[i - 1].arg
        IN /\ obs.events[i].arg = "live" =>
                 /\ OverlayChanges(i) = {}
                 /\ SegEnd(i) = Len(obs.events) => app.fixedComponentsHidden
           /\ (/\ obs.events[i].arg = "destroyedOnly"
               /\ token \in Tokens
               /\ kids[a].hooks[token] = "modal") =>
                 \E k \in OverlayChanges(i) :
                     obs.events[k].e = "modalCreate" /\ obs.events[k].arg = token

ModalMarked(id) == HasModal(id) /\ ModalOf(id).destroyed

\* a destroyed overlay still in its container waits for a frame callback or for
\* the end of an animation heard to start, and no frame wait outlives its frame count
RemovalPending ==
    \A id \in ModalIds :
        ModalMarked(id) =>
            /\ ModalOf(id).waits # {} \/ ModalOf(id).endListener
            /\ \A n \in ModalOf(id).waits : n <= ModalSleepFrames

---------------------------------------------------------------------------
(* Claims about fixed components *)

\* C10 (as claimed): whenever the fixed components are marked hidden, the four
\* insets written to $root are all 0px.
C10_HiddenMeansZeroInsets == app.fixedComponentsHidden => app.insets = ZeroInsets

\* the insets the registered fixed components amount to
RegisteredInsets ==
    [top |-> SumExtents(kids, app.fixedComponents, "top"),
     left |-> SumExtents(kids, app.fixedComponents, "left"),
     bottom |-> SumExtents(kids, app.fixedComponents, "bottom"),
     right |-> SumExtents(kids, app.fixedComponents, "right")]

\* every registered fixed component is connected to $root
AllConnected == \A i \in DOMAIN kids : ~kids[i].connecting

\* C11 (as claimed): whenever the fixed components are visible, every registered one
\* is connected and no size calculation is pending, each inset is the sum of the
\* extents of the registered components anchored at that edge.
C11_InsetsMatchRegistered ==
    (~app.fixedComponentsHidden /\ app.calc = <<>> /\ AllConnected) =>
        app.insets = RegisteredInsets

\* C12: with one fixed component registered at the bottom and measured at height 40,
\* hideFixedComponents leaves all four insets at 0, and after a following
\* showFixedComponents and the measurement it starts the bottom inset is 40 again,
\* with the same single component still registered.
C12_HideThenShowRestores ==
    /\ obs.cycle = "hidden" => app.insets = ZeroInsets /\ app.calc = <<>>
    /\ obs.cycle = "shown" => OneBottomRegion(World) /\ app.calc = app.fixedComponents
    /\ obs.cycle = "restored" => OneBottomMeasured(World)

C12_Witness == obs.cycle = "restored" /\ obs.op = "sizesMeasured"

AllUnits == {components.units[id] : id \in UnitIds}
LinksOf(u) == {i \in DOMAIN u.root : IsLink(u.root[i])}
TrackedLoaded(u) == \A i \in LinksOf(u) : u.root[i].tracked => u.root[i].loaded

\* C13 (as claimed): the deferred-visibility policy of a component is cleared, and the
\* component marked finished, only after setup() has resolved and every stylesheet
\* link in the component (common, layout, the component's own, those added by
\* setup) has fired its load event.
C13_ReadyOnlyAfterAllStylesheets ==
    \A u \in AllUnits :
        (u.clears > 0 \/ u.connectedCallbackFinished) =>
            /\ u.pc = "finished"
            /\ \A i \in LinksOf(u) : u.root[i].loaded

\* C14: for a component with a gating load behaviour the policy is cleared at most
\* once, and once setup() has resolved and every tracked stylesheet has fired its
\* load event (in whichever order) it has been cleared, exactly once.
C14_ClearedExactlyOnce ==
    \A u \in AllUnits :
        Gating(u.loadBehavior) =>
            /\ u.clears <= 1
            /\ u.clears = 1 => ~u.deferred
            /\ (u.pc = "finished" /\ TrackedLoaded(u)) => u.clears = 1

C14_Witness ==
    \E u \in AllUnits :
        /\ Gating(u.loadBehavior) /\ u.clears = 1 /\ u.pc = "finished"
        /\ \E i \in LinksOf(u) : u.root[i].tracked

\* C15: on one instance the first connectedCallback runs the mount sequence, each of
\* the next 6 only warns and returns, and every later one throws; the mount
\* sequence is never run again.
C15_MountOnceWarnSixThenThrow ==
    \A u \in AllUnits :
        /\ u.connectedCallbackRan = 0 => u.last = "none"
        /\ u.connectedCallbackRan = 1 => u.last = "mounted"
        /\ u.connectedCallbackRan \in 2..7 => u.last = "warned"
        /\ u.connectedCallbackRan >= 8 => u.last = "threw"
        /\ u.mounts = (IF u.connectedCallbackRan = 0 THEN 0 ELSE 1)
        /\ u.warns = (IF u.connectedCallbackRan = 0 THEN 0 ELSE u.connectedCallbackRan - 1)

C15_Witness == \E u \in AllUnits : u.connectedCallbackRan = 9 /\ u.last = "threw"

\* C16: whatever the number of connectedCallback invocations on an instance, also
\* while setup() is still awaited, setup() is called at most once.
C16_SetupAtMostOnce == \A u \in AllUnits : u.setupCalls <= 1

C16_Witness ==
    \E u \in AllUnits :
        u.pc = "awaitSetup" /\ u.connectedCallbackRan >= 3 /\ u.setupCalls = 1

\* the components of a type that have run their mount sequence
Mounted(tag) == {u \in AllUnits : u.tag = tag /\ u.mounts > 0}

\* C17: for the components of a type with a layout function, the function runs
\* exactly once, by the first mount; every mount attaches one clone of the cached
\* fragment, and the cached fragment stays as the function left it.
C17_LayoutGeneratedOnce ==
    \A tag \in UnitTags :
        HasLayout(tag) =>
            /\ components.layoutRuns[tag] = (IF Mounted(tag) = {} THEN 0 ELSE 1)
            /\ components.CachedLayouts[tag] =
                   (IF Mounted(tag) = {} THEN Undefined ELSE GenerateLayout(tag))
            /\ \A u \in Mounted(tag) :
                   /\ u.layoutClones = 1
                   /\ [i \in DOMAIN u.root |-> u.root[i].kind] = GenerateLayout(tag)

C17_Witness ==
    \A id \in UnitIds :
        components.units[id].tag = "X-CARD" /\ components.units[id].mounts = 1

\* the token and the arguments written in a fragment, read off by hand
ExpectedToken(fragment) ==
    CASE fragment = "" -> ""
      [] fragment \in {"#m", "#m?s=%22a%22&ok=true&n=17", "#m?qty"} -> "m"
      [] fragment \in {"#checkout", "#checkout?qty=2"} -> "checkout"

ExpectedArgs(fragment) ==
    CASE fragment = "#checkout?qty=2" ->
            [k \in {<<"q", "t", "y">>} |-> JsonValue("number", 2, FALSE, <<>>)]
      [] fragment = "#m?s=%22a%22&ok=true&n=17" ->
            [k \in {<<"s">>, <<"o", "k">>, <<"n">>} |->
                CASE k = <<"s">> -> JsonValue("string", 0, FALSE, <<"a">>)
                  [] k = <<"o", "k">> -> JsonValue("boolean", 0, TRUE, <<>>)
                  [] k = <<"n">> -> JsonValue("number", 17, FALSE, <<>>)]
      [] OTHER -> <<>>

\* fragments of the form token or token?key=value&...
WellFormed == HashFragments \ {"#m?qty"}

\* C18: for a fragment token?key=value&..., the token is the part before "?"; the
\* factory called is the one the active screen registered under that token, and it
\* receives the map of the JSON-decoded values (checkout?qty=2: qty is the number
\* 2); with such a factory and no overlay tagged with the token, it is called.
C18_TokenAndDecodedArguments ==
    /\ \A i \in EventIdx("factory") :
           /\ obs.events[i].arg = ExpectedToken(loc.hash)
           /\ HookOf(kids[obs.events[i].id], ExpectedToken(loc.hash)) # "none"
           /\ obs.events[i - 1].e = "args"
           /\ obs.events[i - 1].arg = ExpectedArgs(loc.hash)
    /\ \A i \in EventIdx("tagged") :
           (/\ loc.hash \in WellFormed
            /\ obs.events[i].arg = "none"
            /\ HookOf(kids[obs.events[i].id], ExpectedToken(loc.hash)) # "none") =>
               \E k \in (i + 1)..SegEnd(i) : obs.events[k].e = "factory"

C18_Witness ==
    /\ loc.hash = "#checkout?qty=2"
    /\ \E i \in EventIdx("factory") :
           /\ obs.events[i].arg = "checkout"
           /\ obs.events[i - 1].arg[<<"q", "t", "y">>].t = "number"
           /\ obs.events[i - 1].arg[<<"q", "t", "y">>].n = 2

\* the active screen holds a live overlay created for a fragment
LiveHashModal ==
    /\ CurrentIdx(World) # 0
    /\ \E j \in DOMAIN kids[CurrentIdx(World)].modals :
           /\ kids[CurrentIdx(World)].modals[j].type = "hash"
           /\ ~kids[CurrentIdx(World)].modals[j].destroyed

\* C19: an unforced hashChange (the one startModal makes) for a fragment whose token
\* is the last processed token changes nothing: no overlay is destroyed or created,
\* no factory is called, fixedComponentsHidden and every other field stay as they are.
C19_SameTokenChangesNothing ==
    [][(/\ obs'.op = "startModal"
        /\ obs'.err = "none"
        /\ ExpectedToken(loc'.hash) = app.lastHash) =>
           (kids' = kids /\ app' = app /\ obs'.events = <<>>)]_vars

C19_Witness ==
    /\ obs.op = "startModal" /\ obs.err = "none" /\ obs.events = <<>>
    /\ loc.hash = "#checkout?qty=2" /\ app.lastHash = "checkout"
    /\ LiveHashModal

\* C20: when the factory for the token returns an overlay, the fixed components are
\* hidden and the overlay carries the token that triggered it, has type "hash" and
\* is the last child of the modal container of the screen active at that moment.
C20_HashOverlayAttached ==
    \A k \in EventIdx("modalCreate") :
        LET token == obs.events[k].arg
            a == CurrentIdx(World)
        IN token # "" =>
              /\ token = ExpectedToken(loc.hash)
              /\ obs.events[k - 1].e = "factory" /\ obs.events[k - 1].arg = token
              /\ k = Len(obs.events) =>
                    /\ app.fixedComponentsHidden
                    /\ a # 0 /\ obs.events[k - 1].id = a
                    /\ kids[a].modals # <<>>
                    /\ LET m == kids[a].modals[Len(kids[a].modals)]
                       IN /\ m.id = obs.events[k].id /\ m.token = token
                          /\ m.type = "hash" /\ ~m.destroyed

C20_Witness ==
    /\ EventIdx("modalCreate") # {} /\ obs.events[Len(obs.events)].e = "modalCreate"
    /\ obs.events[Len(obs.events)].arg = "checkout"
    /\ app.fixedComponentsHidden

\* C21: when the factory registered for the token returns null, no overlay is
\* attached and the fixed components are shown; hashChange then throws if
\* ThrowFatalOnNullModalObject is set and returns normally if it is not.
C21_NullFactory ==
    \A i \in EventIdx("factory") :
        HookOf(kids[obs.events[i].id], obs.events[i].arg) = "null" =>
            /\ \A k \in (i + 1)..SegEnd(i) : obs.events[k].e # "modalCreate"
            /\ i = Len(obs.events) =>
                  /\ ~app.fixedComponentsHidden
                  /\ \A j \in DOMAIN kids[obs.events[i].id].modals :
                         kids[obs.events[i].id].modals[j].destroyed
                  /\ obs.err = (IF app.ThrowFatalOnNullModalObject THEN "NullModal" ELSE "none")

C21_Witness ==
    /\ obs.events # <<>> /\ obs.events[Len(obs.events)].e = "factory"
    /\ obs.err = "NullModal" /\ app.ThrowFatalOnNullModalObject

\* C22: an overlay is created for a fragment only from a factory registered on the
\* screen that is active then; with the factory registered only on another screen,
\* the fragment produces no overlay.
C22_FactoryOfActiveScreenOnly ==
    \A k \in EventIdx("modalCreate") :
        (obs.events[k].arg # "" /\ k = Len(obs.events)) =>
            /\ CurrentIdx(World) # 0
            /\ kids[CurrentIdx(World)].hooks[obs.events[k].arg] = "modal"
            /\ \E j \in DOMAIN kids[CurrentIdx(World)].modals :
                   kids[CurrentIdx(World)].modals[j].id = obs.events[k].id

C22_Witness ==
    /\ loc.hash = "#m" /\ EventIdx("hashChange") # {} /\ EventIdx("modalCreate") = {}
    /\ obs.err = "none"
    /\ CurrentIdx(World) # 0 /\ kids[CurrentIdx(World)].hooks["m"] = "none"
    /\ \E i \in DOMAIN kids :
           kids[i].kind = "activity" /\ ~kids[i].destroyed /\ kids[i].hooks["m"] = "modal"

\* C23: a call of removeModal on an overlay on which removeModal was already called
\* changes nothing (no history navigation, no fragment reset, no showing of the fixed
\* regions, no destroy marking) and resolves its promise at once
C23_SecondRemoveModalNoEffect ==
    [][\A id \in ModalIds :
          (/\ obs'.op = "removeModal" /\ obs'.events # <<>> /\ obs'.events[1].id = id
           /\ HasModal(id) /\ ModalOf(id).removing)
          => /\ app' = app /\ kids' = kids /\ loc' = loc
             /\ obs'.err = "none"
             /\ obs'.events = <<[e |-> "removeModal", id |-> id, arg |-> "resolved"]>>]_vars

\* a second call on a hash-triggered overlay while fixed regions are hidden
C23_Witness ==
    /\ obs.op = "removeModal" /\ obs.events # <<>> /\ obs.events[1].arg = "resolved"
    /\ HasModal(obs.events[1].id) /\ ModalOf(obs.events[1].id).type = "hash"
    /\ ~ModalOf(obs.events[1].id).destroyed
    /\ app.fixedComponentsHidden /\ loc.hash = "#m"

\* U+2014, the dash of the claimed title
EmDash == <<8212>>

\* C24 (as claimed): after a transition that made a screen active, created or reused,
\* the document title is "<screenTitle> <em dash> <appName>" when the screen's class
\* declares a title and "<appName>" otherwise.
C24_TitleOnActivation ==
    \A i \in EventIdx("switchedTo") :
        (\A k \in EventIdx("switchedTo") : k <= i) =>
            app.title = IF activityTitle(kids[obs.events[i].id].tag) # ""
                        THEN TitleText(activityTitle(kids[obs.events[i].id].tag), EmDash,
                                       applicationName)
                        ELSE TitleText("", <<>>, applicationName)

\* the path without its last segment, "/" when nothing is left
ParentRoute(path) ==
    CASE path = "/settings/login" -> "/settings"
      [] OTHER -> "/"

\* C25 (as claimed): back() leaves the step to the browser history when the history
\* has state; otherwise it navigates, as goto does, to the parent route of the current
\* path, "/" when there is none.
C25_BackHistoryOrParent ==
    [][obs'.op = "back" =>
          IF history.entries[history.at].state # "null"
          THEN /\ history' = history /\ loc' = loc /\ kids' = kids
               /\ obs'.events = <<[e |-> "historyBack", id |-> 0, arg |-> ""]>>
          ELSE /\ loc'.pathname = ParentRoute(loc.pathname)
               /\ history' = pushState(history, "GREENFRAME - goto", loc')]_vars

\* C26 (as claimed): when the first route transition of start() has been made, every
\* child of the preload container is ready; no image child is still loading.
C26_RouteAfterPreload ==
    obs.op = "initialRoute" =>
        \A i \in DOMAIN preload.children :
            /\ preload.children[i].ready
            /\ preload.children[i].img => preload.children[i].complete

\* the overlays of the activity at index a that were created for a fragment and are
\* not marked destroyed
LiveHashModals(a) ==
    {j \in DOMAIN kids[a].modals :
        kids[a].modals[j].type = "hash" /\ ~kids[a].modals[j].destroyed}

LiveOverlayOnActiveScreen ==
    /\ CurrentIdx(World) # 0
    /\ \E j \in DOMAIN kids[CurrentIdx(World)].modals :
           ~kids[CurrentIdx(World)].modals[j].destroyed

\* C28 (as claimed): when a fragment event (a hashChange that went past its first
\* test), an attachModal or a removeModal of an attached overlay has been processed
\* without a throw, the fixed components are hidden exactly when the active screen's
\* overlay container holds an overlay that is not marked destroyed.
C28_HiddenIffLiveOverlay ==
    (/\ obs.err = "none"
     /\ \/ EventIdx("hashChange") # {}
        \/ obs.op = "attachModal"
        \/ obs.op = "removeModal" /\ obs.events[1].arg = "attached")
    => (app.fixedComponentsHidden <=> LiveOverlayOnActiveScreen)

\* C29 (as claimed): after a route change (initial, goto or popstate) that returns
\* without throwing, the active screen is an instance of the constructor the routing
\* configuration yields for the location: the matching override, else the route
\* table entry of the path, else the not-found handler.
C29_ActiveScreenMatchesRoute ==
    (NavOp /\ obs.err = "none") =>
        /\ CurrentIdx(World) # 0
        /\ kids[CurrentIdx(World)].tag = Resolve(loc.pathname)

\* the screen types of the activities attached to $root, in DOM order
AttachedScreens ==
    LET acts == SelectSeq(kids, LAMBDA n : n.kind = "activity" /\ ~n.destroyed)
    IN [i \in DOMAIN acts |-> acts[i].tag]

\* C30 (as claimed): with SELF_POPULATE_ROUTING_HISTORY enabled, after the initial
\* route change on /settings/login the screens of "/", "/settings" and
\* "/settings/login" are attached, one instance each, in that order, and the screen
\* of "/settings/login" is the active one.
C30_AncestorScreensStarted ==
    (/\ obs.op = "initialRoute" /\ obs.err = "none"
     /\ app.SELF_POPULATE_ROUTING_HISTORY
     /\ loc.pathname = "/settings/login")
    => /\ AttachedScreens = <<Routes("/"), Routes("/settings"), Routes("/settings/login")>>
       /\ CurrentIdx(World) # 0
       /\ kids[CurrentIdx(World)].tag = Routes("/settings/login")

\* C31 (as claimed): when unregisterFixedComponents has returned, fixedComponents is
\* empty and no fixed component is a child of $root, however many were registered.
C31_AllRegionsUnregistered ==
    (obs.op = "unregisterFixedComponents" /\ obs.err = "none") =>
        /\ app.fixedComponents = <<>>
        /\ \A i \in DOMAIN kids : kids[i].kind # "fixed"

\* C32 (as claimed): a call of unregisterFixedComponent that finds a registered
\* component removes the first match from fixedComponents and returns normally;
\* the call throws only when it removed nothing.
C32_ThrowsOnlyWithoutMatch ==
    [][obs'.op = "unregisterFixedComponent" =>
          /\ app'.fixedComponents # app.fixedComponents =>
                 /\ obs'.err = "none"
                 /\ Len(app'.fixedComponents) = Len(app.fixedComponents) - 1
          /\ obs'.err # "none" => app'.fixedComponents = app.fixedComponents]_vars

\* the value the pairs of d give the key k: that of the last pair with the key
LastValue(d, k) ==
    d[CHOOSE i \in DOMAIN d : d[i][1] = k /\ \A j \in DOMAIN d : d[j][1] = k => j <= i][2]

\* two sequences of <<key, value>> pairs are the same map
SameMap(d, e) ==
    /\ {d[i][1] : i \in DOMAIN d} = {e[i][1] : i \in DOMAIN e}
    /\ \A i \in DOMAIN d : LastValue(e, d[i][1]) = LastValue(d, d[i][1])

\* C33 (as claimed): goto(route, data) does not throw and hands switchedTo a map
\* equal to data, for every map from string keys to string values; and a query
\* string that assigns a key twice yields the value of the last assignment.
C33_GotoDeliversData ==
    /\ obs.op = "gotoData" =>
           /\ obs.err = "none"
           /\ Len(obs.events) = 2
           /\ SameMap([i \in DOMAIN obs.events[1].arg |->
                          <<obs.events[1].arg[i].key, obs.events[1].arg[i].val>>],
                      obs.events[2].arg)
    /\ (obs.op = "popStateQuery"
           /\ obs.events[1].arg = <<"?", "a", "=", "a", "&", "b", "=", "a", "&", "a", "=", "b">>)
       => /\ obs.err = "none"
          /\ SameMap(obs.events[2].arg, << <<(<<"a">>), (<<"b">>)>>, <<(<<"b">>), (<<"a">>)>> >>)

\* the map with the properties of a call
PropertyMap(properties) ==
    [k \in {properties[i].key : i \in DOMAIN properties} |->
        properties[CHOOSE i \in DOMAIN properties : properties[i].key = k].val]

\* the map the properties of the call have, for the call that pushed the fragment
FactoryCalledWith(o, args) ==
    \E i \in DOMAIN o.events :
        /\ o.events[i].e = "args" /\ o.events[i].arg = args
        /\ i < Len(o.events) /\ o.events[i + 1].e = "factory"

\* C34 (as claimed): startModal(name, properties) on the active screen ends with the
\* factory registered under name called with a map equal to properties; with no
\* factory under name it throws and the location is as it was.
C34_FactoryGetsProperties ==
    [][\A call \in PropertyCalls :
          (obs'.op = "startModal" /\ CurrentIdx(World) # 0) =>
              /\ (HookOf(kids[CurrentIdx(World)], call.name) # "none"
                     /\ loc'.hash = HashOfCall(call))
                  => FactoryCalledWith(obs', PropertyMap(call.properties))
              /\ obs'.err = "NoModalDeclared" => loc' = loc]_vars

\* the screens at the root that are marked destroyed
DestroyedScreens == {i \in DOMAIN kids : kids[i].kind = "activity" /\ kids[i].destroyed}

\* C35: a screen instance marked destroyed is handed no navigation arguments again,
\* is not the current activity, and keeps its mark for as long as it is attached.
\* (Positions at the root change only when a destroyed screen is detached.)
C35_DestroyedScreenStaysDead ==
    [][/\ obs'.op # "activityRemoved" =>
              \A i \in DestroyedScreens :
                  /\ i \in DOMAIN kids'
                  /\ kids'[i].kind = "activity" /\ kids'[i].tag = kids[i].tag
                  /\ kids'[i].destroyed
                  /\ \A p \in DOMAIN obs'.events :
                         ~(obs'.events[p].e = "switchedTo" /\ obs'.events[p].id = i)
       /\ \A p, q \in DOMAIN obs'.events :
              (obs'.events[p].e \in {"destroy", "redestroy"} /\ p < q
                 /\ obs'.events[q].e = "switchedTo")
              => obs'.events[q].id # obs'.events[p].id
       /\ LET c == CurrentIdx([app |-> app', kids |-> kids', loc |-> loc', obs |-> obs'])
          IN c # 0 => ~kids'[c].destroyed]_vars

\* a navigation to the type of a destroyed, still attached screen built a new instance
C35_Witness ==
    /\ NavOp
    /\ \E i \in DestroyedScreens, p \in EventIdx("create") :
           /\ kids[i].tag = obs.events[p].arg
           /\ i < obs.events[p].id
           /\ \A q \in DOMAIN obs.events :
                  ~(obs.events[q].e \in {"destroy", "redestroy"} /\ obs.events[q].id = i)

\* the destroyed screen whose wait holds the timeout k is attached
ExitPending(k) ==
    \E i \in DOMAIN kids : kids[i].kind = "activity" /\ kids[i].destroyed /\ kids[i].timer = k

\* C36: every screen marked destroyed is detached in the end, by the end of an
\* animation on it or by its timeout, and one such event detaches it once: a screen
\* marked destroyed has a wait, and no wait stays pending for ever.
C36_DestroyedScreenDetached ==
    /\ [](\A i \in DestroyedScreens : kids[i].timer \in TimerHandles)
    /\ [](obs.op \in {"exitTimeout", "exitAnimationEnd"} => Cardinality(EventIdx("activityRemove")) <= 1)
    /\ \A k \in TimerHandles : []<>(~ExitPending(k))

\* the timeout of a destroyed screen has detached it while another one still waits
C36_Witness ==
    /\ obs.op = "exitTimeout"
    /\ EventIdx("activityRemove") # {}
    /\ DestroyedScreens # {}

\* C38 (as claimed): once a frame-driven component is disconnected none of its frame
\* calls is invoked, and in the end no frame is requested for it any more.
C38_NoFrameCallAfterDisconnect ==
    /\ [](FrameUnitNow.killSwitch => FrameUnitNow.lateCalls = 0)
    /\ <>[](FrameUnitNow.killSwitch => ~FrameUnitNow.requested)

\* the promise of the first removeModal() on the overlay id is not resolved
PromisePending(id) == HasModal(id) /\ ModalOf(id).removing /\ ~ModalOf(id).resolved

\* C37 (as claimed): the promise of the first removeModal() on an overlay is
\* resolved in the end, whatever the type of the overlay and with or without an
\* exit animation: no promise stays pending for ever, and no overlay leaves the
\* document, where no animation can end on it any more, with its promise pending.
C37_RemoveModalResolves ==
    /\ \A id \in ModalIds : []<>(~PromisePending(id))
    /\ [][\A id \in ModalIds :
             (PromisePending(id) /\ ~HasModal(id)') => obs'.op = "modalAnimationEnd"]_vars

\* the step ran routeChanged(true), the initial route change, and a screen was
\* started, handed its arguments or refreshed by it, or it threw
InitialRouteChanged ==
    /\ obs'.op = "initialRoute"
    /\ ~(app'.awaitingSize /\ ~app.awaitingSize)
    /\ obs'.events # <<>> \/ obs'.err # "none"

\* C39 (as claimed): the initial route change is performed once, however many
\* animationend events reach $root during the first size calculation: it is
\* performed only while postApplicationStart is still registered, which it is no
\* longer once it has been performed.
C39_InitialRouteOnce ==
    [][InitialRouteChanged => app.listening]_vars

\* every child of the preload container carries the ready attribute
AllChildrenReady == \A i \in DOMAIN preload.children : preload.children[i].ready

\* C40 (as claimed): when the children of the preload container all become ready,
\* a container without children included, start() gets past preloadResources()
\* and marks the application started.
C40_StartGetsPastPreload ==
    <>[](preload.pc # "constructed" /\ AllChildrenReady) => <>(app.started)

====
